---- MODULE Spec2Model ----
(***************************************************************************)
(* darkwing: the runc executor (runtimes/runc.py) and the container        *)
(* handle (config/container.py).                                           *)
(*                                                                         *)
(* One supervisor process drives an OCI runtime through a container's life *)
(* cycle.  The model has the supervisor's main thread (pc), the executor   *)
(* and handle fields, the files the executor shares with other supervisors *)
(* (lockfile, pidfile, config.json, config.orig.json), the runtime's own   *)
(* record of the container, and the container's init process.             *)
(*                                                                         *)
(* The caller either uses the executor's methods one by one on container  *)
(* c1 (caller = "api"), or calls run_until_complete on it (caller =        *)
(* "run"), or holds an executor with containers already created and        *)
(* started and uses the methods that go over the whole registry (caller =  *)
(* "registry").  A last kind of behaviour (caller = "lock") has two        *)
(* supervisors going through the lockfile protocol of create_container on  *)
(* the same bundle, one system call at a time.                             *)
(***************************************************************************)
EXTENDS Integers, Sequences, FiniteSets, TLC

\* ------------------------------------------------------------------ bounds
\* External signals delivered to the supervisor in one behaviour.
MaxSignals == 2

\* ------------------------------------------------------- program constants
SIGHUP == 1
SIGINT == 2
SIGQUIT == 3
SIGABRT == 6
SIGUSR1 == 10
SIGTERM == 15
SIGCHLD == 17
SIGWINCH == 28

\* RuncExecutor.FORWARD_SIGNALS / RAISE_ON_SIGNALS
FORWARD_SIGNALS == {SIGINT, SIGHUP, SIGTERM, SIGQUIT}
RAISE_ON_SIGNALS == {SIGABRT}

\* Python's None, for the integer-valued fields (pid, returncode).
None == 9999
\* Container._wait: the sentinel for a child reaped somewhere else.
ReapedElsewhere == 255
\* RuncError.__init__: the default code.
DefaultErrorCode == 1

\* The container handles a caller may hold, and the pid the runtime gives
\* the init process of each.
Containers == {"c1", "c2"}
\* The container the caller creates, starts and removes.
ApiContainers == {"c1"}
PidOf(c) == IF c = "c1" THEN 11 ELSE 12

\* os.getpid() of the supervisor, of another live supervisor, and a pid no
\* live process has.
SelfPid == 100
OtherPid == 200
StalePid == 300
Sups == {SelfPid, OtherPid}

\* Exit codes of a container's process; non-zero exit codes of a runtime
\* subcommand.
ExitCodes == {0, 3}
FailCodes == {1, 2}
\* Signals the environment sends to the supervisor (besides SIGABRT and the
\* kernel's SIGCHLD).
ExtSignals == {SIGHUP, SIGINT, SIGQUIT, SIGTERM, SIGUSR1, SIGWINCH}

\* ---------------------------------------------------------------- helpers
\* str(pid) and int(text) on decimal ASCII: a file's text is its digits.
RECURSIVE IntToStr(_)
IntToStr(n) == IF n < 10 THEN <<n>> ELSE Append(IntToStr(n \div 10), n % 10)

RECURSIVE StrToInt(_)
StrToInt(s) ==
    IF s = <<>> THEN 0 ELSE 10 * StrToInt(SubSeq(s, 1, Len(s) - 1)) + s[Len(s)]

\* A path with no file (read_text raises FileNotFoundError), an empty file.
NoFile == <<-1>>
EmptyFile == <<>>

\* waitpid status words (Linux): exit code in the high byte, terminating
\* signal in the low seven bits, 0x7f in the low byte when stopped.
ExitedStatus(code) == code * 256
SignaledStatus(sig) == sig
WIFSIGNALED(sts) == (sts % 128) # 0 /\ (sts % 128) # 127
WTERMSIG(sts) == sts % 128
WIFEXITED(sts) == (sts % 128) = 0
WEXITSTATUS(sts) == (sts \div 256) % 256
WIFSTOPPED(sts) == (sts % 256) = 127
WSTOPSIG(sts) == (sts \div 256) % 256

compute_returncode(sts) ==
    IF WIFSIGNALED(sts) THEN 0 - WTERMSIG(sts)
    ELSE IF WIFEXITED(sts) THEN WEXITSTATUS(sts)
    ELSE IF WIFSTOPPED(sts) THEN WSTOPSIG(sts)
    ELSE None

\* Exceptions: kind is the Python class, code is RuncError.code.
NoExc == [kind |-> "none", code |-> 0, msg |-> "none"]
RuncError(msg, code) == [kind |-> "RuncError", code |-> code, msg |-> msg]
PyError(kind, msg) == [kind |-> kind, code |-> 0, msg |-> msg]

\* ---------------------------------------------------------------- state
VARIABLES
    caller,      \* "api", "run", "registry", "lock", "close" or "pump": the scenario
    pc,          \* the main thread's position
    cur,         \* the container argument of the call in progress
    remove,      \* run_until_complete's remove argument
    closing,     \* RuncExecutor._closing
    running,     \* RuncExecutor._running
    returncode,  \* RuncExecutor.returncode
    containers,  \* RuncExecutor._containers, in insertion order
    handlers,    \* signal handlers and wakeup fd installed (_signals)
    subreaper,   \* PR_SET_CHILD_SUBREAPER is in effect
    sigq,        \* bytes written to the self-pipe and not yet received
    batch,       \* bytes of the last recv not yet handled
    todo,        \* handles _close still has to close
    nsig,        \* external signals delivered so far
    exc,         \* the exception raised by the call in progress / caught
    escaped,     \* where an exception left run_until_complete
    unwinding,   \* an exception is pending behind the finally clause
    cmdlog,      \* runtime subcommands launched by the call in progress
    killlog,     \* kill() calls made by the last _send_signal
    cpid,        \* Container.pid
    status,      \* Container.status
    crc,         \* Container.returncode
    cclosing,    \* Container._closing: "None", "True", "False"
    proc,        \* the init process: none, init, running, zombie, gone
    wstatus,     \* its wait status once it has died
    pendsig,     \* a signal sent to it and not yet acted upon
    isChild,     \* it is a child of the supervisor (subreaper adoption)
    rtExists,    \* the runtime has a record of the container
    lockfile,    \* text of {rundir}/lock
    pidfile,     \* text of {rundir}/pid
    cfg,         \* the bundle's config.json and config.orig.json
    rundir,      \* Container.rundir is set: the runtime dir has been made
    lpc,         \* lock protocol: each supervisor's position
    lread,       \* lock protocol: the text each supervisor read
    close_fds,   \* Container._close_fds, left to right
    io_threads,  \* Container._io_threads, left to right
    stop_event,  \* Container._stop_event: "None", "clear" or "set"
    fdopen,      \* the fds that are open
    alive,       \* the I/O threads that are alive
    oplog,       \* what close() calls did: <<call, operation, argument>>
    kret,        \* how each close() call ended: <<"ret" or "raise", returncode>>
    ncalls,      \* close() calls made so far
    ppc,         \* iopump: the pump thread's position
    source,      \* bytes the read endpoint has yet to deliver
    rdseq,       \* bytes read from the read endpoint so far
    wrseq,       \* bytes the write endpoint has accepted so far
    buf,         \* iopump's buf
    read_from,   \* iopump's read_from: "open", "closed" (by someone else), "None"
    write_to,    \* the write endpoint: "ok", "full", "hup" (peer gone), "closed"
    pipe_eof,    \* iopump's pipe_eof after the fstat
    rlist,       \* read_from is in rlist
    wlist,       \* write_to is in wlist
    readable,    \* read_from is in readable
    writeable,   \* write_to is in writeable
    pump_exc,    \* iopump's exc
    rend,        \* why read_from was dropped: eof, stop, wclosed, rclosed
    future,      \* iopump's future: None, pending, cancelled, running, result, exception
    host_tty,    \* the terminal behind the host's stdio: "none", "cooked" or "raw"
    use_tty,     \* Container.use_tty
    tty_raw,     \* RuncExecutor.tty_raw: "None", "True" or "False"
    old_tty_settings, \* RuncExecutor._old_tty_settings: "None" or the saved mode
    tty_log,     \* termios calls made on the host terminal during this run
    out_tty,     \* output_isatty(self.stdin, self.stdout): both the same terminal
    cpath,       \* how create_container ran the runtime's create: none, tty, notty
    orphan,      \* a grandchild of the container: none, running, zombie, reaped
    cfds,        \* the fds adopted for each container: none, open, closed
    pumps,       \* each container's pump threads: none, alive, joined
    tdlog,       \* the teardown steps run_until_complete has executed
    rc_cond,     \* self._condition at each returncode's assignment: none, held, free
    unpacked,    \* what the image unpacker last wrote to config.json
    args,        \* the arguments of the function under study
    res,         \* its result
    mdirs        \* the mount source directories update_spec_file has created

execVars == <<closing, running, returncode, containers, handlers, subreaper>>
loopVars == <<sigq, batch, todo, nsig>>
excVars == <<exc, escaped, unwinding>>
logVars == <<cmdlog, killlog>>
conVars == <<cpid, status, crc, cclosing>>
procVars == <<proc, wstatus, pendsig, isChild, rtExists>>
fileVars == <<lockfile, pidfile, cfg, rundir>>
lockVars == <<lpc, lread>>
ioVars == <<close_fds, io_threads, stop_event, fdopen, alive, oplog, kret, ncalls>>
pumpVars == <<ppc, source, rdseq, wrseq, buf, read_from, write_to, pipe_eof,
              rlist, wlist, readable, writeable, pump_exc, rend, future>>
ttyVars == <<host_tty, use_tty, tty_raw, old_tty_settings, tty_log, out_tty, cpath>>
resVars == <<orphan, cfds, pumps, tdlog, rc_cond>>
fnVars == <<unpacked, args, res, mdirs>>
moreVars == <<ttyVars, resVars, fnVars>>
callVars == <<caller, cur, remove>>

vars == <<pc, callVars, execVars, loopVars, excVars, logVars, conVars,
          procVars, fileVars, lockVars, ioVars, pumpVars, moreVars>>

Statuses == {"new", "created", "running", "stopped", "removed"}

InRegistry(c) == \E i \in 1..Len(containers) : containers[i] = c

\* os.kill(pid, 0) succeeds: a supervisor, or a container process that has
\* not been reaped.
PidAlive(pid) ==
    \/ pid \in Sups
    \/ \E c \in Containers : PidOf(c) = pid /\ proc[c] \in {"init", "running", "zombie"}

\* What the runtime's `state` subcommand reports for a container it knows.
RuntimeStatus(c) ==
    CASE proc[c] = "init" -> "created"
      [] proc[c] = "running" -> "running"
      [] OTHER -> "stopped"
RuntimePid(c) == IF RuntimeStatus(c) = "stopped" THEN 0 ELSE PidOf(c)

\* The pristine spec the unpacker wrote, and its overlay.
Unpacked == <<"unpacked">>
NoSpec == <<>>
Overlay(spec_str) == <<"overlay">> \o spec_str

\* ------------------------------------------------------------ initial state
\* What a supervisor may find in the runtime dir: no lockfile, an empty one,
\* its own pid, another live supervisor's, a dead one's; no pidfile, a live
\* process's pid, a dead one's.
LockTexts == {NoFile, EmptyFile, IntToStr(SelfPid), IntToStr(OtherPid), IntToStr(StalePid)}
PidTexts == {NoFile, IntToStr(OtherPid), IntToStr(StalePid)}

InitHandles ==
    /\ closing = FALSE
    /\ running = FALSE
    /\ returncode = None
    /\ containers = <<>>
    /\ handlers = FALSE
    /\ subreaper = FALSE
    /\ sigq = <<>>
    /\ batch = <<>>
    /\ todo = <<>>
    /\ nsig = 0
    /\ exc = NoExc
    /\ escaped = "none"
    /\ unwinding = FALSE
    /\ cmdlog = <<>>
    /\ killlog = <<>>
    /\ cpid = [c \in Containers |-> None]
    /\ status = [c \in Containers |-> "new"]
    /\ crc = [c \in Containers |-> None]
    /\ cclosing = [c \in Containers |-> "None"]
    /\ proc = [c \in Containers |-> "none"]
    /\ wstatus = [c \in Containers |-> 0]
    /\ pendsig = [c \in Containers |-> 0]
    /\ isChild = [c \in Containers |-> FALSE]
    /\ rtExists = [c \in Containers |-> FALSE]
    /\ cfg = [c \in Containers |-> [json |-> Unpacked, orig |-> NoSpec]]
    /\ rundir = [c \in Containers |-> FALSE]
    /\ cur = "c1"

\* No pump: every other scenario.
InitNoPump ==
    /\ ppc = "p_off"
    /\ source = <<>>
    /\ rdseq = <<>>
    /\ wrseq = <<>>
    /\ buf = <<>>
    /\ read_from = "None"
    /\ write_to = "closed"
    /\ pipe_eof = FALSE
    /\ rlist = FALSE
    /\ wlist = FALSE
    /\ readable = FALSE
    /\ writeable = FALSE
    /\ pump_exc = "none"
    /\ rend = "none"
    /\ future = "None"

\* No terminal: the host's stdio is not a tty and the container asks for none.
InitNoTty ==
    /\ host_tty = "none"
    /\ out_tty = FALSE
    /\ cpath = "none"
    /\ use_tty = FALSE
    /\ tty_raw = "None"
    /\ old_tty_settings = "None"
    /\ tty_log = <<>>

\* Nothing adopted yet, no teardown step taken, no grandchild.
InitResources ==
    /\ cfds = [c \in Containers |-> "none"]
    /\ pumps = [c \in Containers |-> "none"]
    /\ tdlog = <<>>
    /\ rc_cond = [c \in Containers |-> "none"]

InitNoOrphan == orphan = "none"

\* No function under study.
InitNoFn ==
    /\ unpacked = NoSpec
    /\ args = <<>>
    /\ res = <<>>
    /\ mdirs = {}

InitPlain == InitNoTty /\ InitResources /\ InitNoOrphan /\ InitNoFn

\* A handle without stdio: Container.__init__.
InitNoIo ==
    /\ close_fds = <<>>
    /\ io_threads = <<>>
    /\ stop_event = "None"
    /\ fdopen = {}
    /\ alive = {}
    /\ oplog = <<>>
    /\ kret = <<>>
    /\ ncalls = 0

InitFiles ==
    /\ \E lt \in LockTexts : lockfile = [c \in Containers |-> IF c = "c1" THEN lt ELSE NoFile]
    /\ \E pt \in PidTexts : pidfile = [c \in Containers |-> IF c = "c1" THEN pt ELSE NoFile]

InitApi ==
    /\ caller = "api"
    /\ pc = "idle"
    /\ remove = FALSE
    /\ InitHandles
    /\ InitNoIo
    /\ InitNoPump
    /\ InitPlain
    /\ InitFiles
    /\ lpc = [s \in Sups |-> "off"]
    /\ lread = [s \in Sups |-> NoFile]

InitRun ==
    /\ caller = "run"
    /\ pc = "r_entry"
    /\ remove \in BOOLEAN
    /\ InitHandles
    /\ InitNoIo
    /\ InitNoPump
    /\ InitPlain
    /\ InitFiles
    /\ lpc = [s \in Sups |-> "off"]
    /\ lread = [s \in Sups |-> NoFile]

\* run_until_complete on a host terminal, for a container that may ask for
\* a tty.
InitRunTty ==
    /\ caller = "run"
    /\ pc = "r_entry"
    /\ remove \in BOOLEAN
    /\ InitHandles
    /\ InitNoIo
    /\ InitNoPump
    /\ InitResources
    /\ InitNoOrphan
    /\ InitNoFn
    /\ InitFiles
    /\ lpc = [s \in Sups |-> "off"]
    /\ lread = [s \in Sups |-> NoFile]
    /\ \E hs \in {<<"none", FALSE>>, <<"cooked", FALSE>>, <<"cooked", TRUE>>} :
          host_tty = hs[1] /\ out_tty = hs[2]
    /\ cpath = "none"
    /\ use_tty \in BOOLEAN
    /\ tty_raw = "None"
    /\ old_tty_settings = "None"
    /\ tty_log = <<>>

InitLock ==
    /\ caller = "lock"
    /\ pc = "off"
    /\ remove = FALSE
    /\ InitHandles
    /\ InitNoIo
    /\ InitNoPump
    /\ InitPlain
    /\ \E lt \in LockTexts : lockfile = [c \in Containers |-> IF c = "c1" THEN lt ELSE NoFile]
    /\ pidfile = [c \in Containers |-> NoFile]
    /\ lpc = [s \in Sups |-> "l_start"]
    /\ lread = [s \in Sups |-> NoFile]

\* An executor on which create_container and start_container have been
\* called for some of the containers, in some order.
Registries == {<<>>, <<"c1">>, <<"c2">>, <<"c1", "c2">>, <<"c2", "c1">>}
Registered(reg, c) == \E i \in 1..Len(reg) : reg[i] = c

InitRegistry ==
    /\ caller = "registry"
    /\ InitNoIo
    /\ InitNoPump
    /\ InitNoTty
    /\ InitNoOrphan
    /\ InitNoFn
    /\ tdlog = <<>>
    /\ rc_cond = [c \in Containers |-> "none"]
    /\ pc = "idle"
    /\ remove = FALSE
    /\ cur = "c1"
    /\ closing = FALSE
    /\ running = FALSE
    /\ returncode = None
    /\ handlers = FALSE
    /\ subreaper = TRUE
    /\ sigq = <<>>
    /\ batch = <<>>
    /\ todo = <<>>
    /\ nsig = 0
    /\ exc = NoExc
    /\ escaped = "none"
    /\ unwinding = FALSE
    /\ cmdlog = <<>>
    /\ killlog = <<>>
    /\ containers \in Registries
    /\ \E started \in SUBSET Containers :
          /\ status = [c \in Containers |->
                         IF ~Registered(containers, c) THEN "new"
                         ELSE IF c \in started THEN "running" ELSE "created"]
          /\ proc = [c \in Containers |->
                       IF ~Registered(containers, c) THEN "none"
                       ELSE IF c \in started THEN "running" ELSE "init"]
    /\ cpid = [c \in Containers |-> IF Registered(containers, c) THEN PidOf(c) ELSE None]
    /\ crc = [c \in Containers |-> None]
    /\ cclosing = [c \in Containers |-> "None"]
    /\ wstatus = [c \in Containers |-> 0]
    /\ pendsig = [c \in Containers |-> 0]
    /\ isChild = [c \in Containers |-> Registered(containers, c)]
    /\ rtExists = [c \in Containers |-> Registered(containers, c)]
    /\ lockfile = [c \in Containers |->
                     IF Registered(containers, c) THEN IntToStr(SelfPid) ELSE NoFile]
    /\ pidfile = [c \in Containers |->
                    IF Registered(containers, c) THEN IntToStr(PidOf(c)) ELSE NoFile]
    /\ cfg = [c \in Containers |->
                IF Registered(containers, c)
                THEN [json |-> Overlay(Unpacked), orig |-> Unpacked]
                ELSE [json |-> Unpacked, orig |-> NoSpec]]
    /\ rundir = [c \in Containers |-> Registered(containers, c)]
    /\ cfds = [c \in Containers |-> IF Registered(containers, c) THEN "open" ELSE "none"]
    /\ pumps = [c \in Containers |-> IF Registered(containers, c) THEN "alive" ELSE "none"]
    /\ lpc = [s \in Sups |-> "off"]
    /\ lread = [s \in Sups |-> NoFile]

Init == InitApi \/ InitRun \/ InitRegistry

\* ------------------------------------------------------- call and return
\* A call made through the API returns to the caller; inside
\* run_until_complete it continues with the next step, or, when it raises,
\* with the except clause.
Return(next) == pc' = IF caller = "api" THEN "idle" ELSE next
Raise(e) ==
    /\ exc' = e
    /\ pc' = IF caller = "api" THEN "idle" ELSE "r_except"

\* The exit of a child (a runtime subcommand, a container process) raises
\* SIGCHLD; with the wakeup fd set its number is written to the self-pipe.
Chld(q) == IF handlers THEN Append(q, SIGCHLD) ELSE q

\* ------------------------------------------------------ lockfile, pidfile
\* _check_container_pidfile / _check_container_lockfile on the text read:
\* "pass", "unlink" (stale, removed) or "raise".
check_container_pidfile(text, own) ==
    IF text = NoFile THEN "pass"
    ELSE IF text = EmptyFile THEN "pass"
    ELSE LET pid == StrToInt(text) IN
         IF pid # 0 /\ pid # own
         THEN IF PidAlive(pid) THEN "raise" ELSE "unlink"
         ELSE "pass"

\* Two faulty variants of _check_container_lockfile, against which the lock
\* properties are tried: one never probes the owner and takes every foreign
\* lockfile for stale, the other takes every foreign lockfile for held.
check_container_lockfile_no_probe(text, self) ==
    IF text = NoFile THEN "pass"
    ELSE IF text = EmptyFile THEN "pass"
    ELSE LET pid == StrToInt(text) IN
         IF pid # 0 /\ pid # self THEN "unlink" ELSE "pass"

check_container_lockfile_no_recovery(text, self) ==
    IF text = NoFile THEN "pass"
    ELSE IF text = EmptyFile THEN "pass"
    ELSE LET pid == StrToInt(text) IN
         IF pid # 0 /\ pid # self THEN "raise" ELSE "pass"

check_container_lockfile(text, self) ==
    IF text = NoFile THEN "pass"
    ELSE IF text = EmptyFile THEN "pass"
    ELSE LET pid == StrToInt(text) IN
         IF pid # 0 /\ pid # self
         THEN IF PidAlive(pid) THEN "raise" ELSE "unlink"
         ELSE "pass"

write_container_lockfile(self) == IntToStr(self)

\* update_spec_file: the pristine copy is made once, the overlay is always
\* computed from it.
\* A faulty variant that overlays whatever config.json holds.
update_spec_file_from_json(files) ==
    [json |-> Overlay(files.json),
     orig |-> IF files.orig = NoSpec THEN files.json ELSE files.orig]

update_spec_file(files) ==
    LET spec_str == IF files.orig = NoSpec THEN files.json ELSE files.orig
    IN [json |-> Overlay(spec_str), orig |-> spec_str]

RegistryPut(reg, c) == IF \E i \in 1..Len(reg) : reg[i] = c THEN reg ELSE Append(reg, c)
RegistryDel(reg, c) == SelectSeq(reg, LAMBDA x : x # c)

\* -------------------------------------------------------- create_container
\* The checks create_container makes under the condition lock.  A faulty
\* variant leaves out the one on _closing.
create_guard_no_closing(cl, pid) ==
    IF pid # None THEN "already_created" ELSE "ok"

create_guard(cl, pid) ==
    IF cl THEN "closing"
    ELSE IF pid # None THEN "already_created"
    ELSE "ok"

\* The closing and pid checks, make_rundir, _check_container_pidfile.
CreatePrecheck ==
    /\ pc = "c_check"
    /\ IF create_guard(closing, cpid[cur]) # "ok"
       THEN /\ Raise(PyError("RuntimeError", create_guard(closing, cpid[cur])))
            /\ UNCHANGED <<pidfile, rundir>>
       ELSE /\ rundir' = [rundir EXCEPT ![cur] = TRUE]
            /\ IF check_container_pidfile(pidfile[cur], cpid[cur]) = "raise"
               THEN Raise(RuncError("exists", DefaultErrorCode)) /\ UNCHANGED pidfile
               ELSE /\ pidfile' = [pidfile EXCEPT ![cur] =
                                     IF check_container_pidfile(pidfile[cur], cpid[cur]) = "unlink"
                                     THEN NoFile ELSE @]
                    /\ pc' = "c_lock"
                    /\ exc' = exc
    /\ UNCHANGED <<callVars, execVars, loopVars, escaped, unwinding, logVars,
                   conVars, procVars, lockfile, cfg, lockVars, ioVars, pumpVars, moreVars>>

\* _check_container_lockfile: the text is read; a live owner other than this
\* supervisor raises, a dead owner's lockfile is unlinked.
CreateLockCheck ==
    /\ pc = "c_lock"
    /\ IF check_container_lockfile(lockfile[cur], SelfPid) = "raise"
       THEN /\ Raise(RuncError("in_use", DefaultErrorCode))
            /\ UNCHANGED <<lockfile, lread>>
       ELSE /\ lockfile' = [lockfile EXCEPT ![cur] =
                              IF check_container_lockfile(lockfile[cur], SelfPid) = "unlink"
                              THEN NoFile ELSE @]
            /\ lread' = [lread EXCEPT ![SelfPid] = lockfile[cur]]
            /\ pc' = "c_write"
            /\ exc' = exc
    /\ UNCHANGED <<callVars, execVars, loopVars, escaped, unwinding, logVars,
                   conVars, procVars, pidfile, cfg, rundir, lpc, ioVars, pumpVars, moreVars>>

\* _write_container_lockfile, then spec.update_spec_file.
CreateLockWrite ==
    /\ pc = "c_write"
    /\ lockfile' = [lockfile EXCEPT ![cur] = write_container_lockfile(SelfPid)]
    /\ lread' = [lread EXCEPT ![SelfPid] = NoFile]
    /\ cfg' = [cfg EXCEPT ![cur] = update_spec_file(cfg[cur])]
    /\ pc' = "c_create"
    /\ UNCHANGED <<callVars, execVars, loopVars, excVars, logVars, conVars,
                   procVars, pidfile, rundir, lpc, ioVars, pumpVars, moreVars>>

\* create_container: `if container.use_tty` chooses _create_container_tty
\* (console socket), else _create_container_notty (socket pairs).
create_path(use) == IF use THEN "tty" ELSE "notty"

\* The runtime's `create`: on success the init process exists, waiting for
\* `start`, and its pid is in the pidfile.
CreateRun ==
    /\ pc = "c_create"
    /\ cmdlog' = Append(cmdlog, "create")
    /\ cpath' = create_path(use_tty)
    /\ sigq' = Chld(sigq)
    /\ \/ /\ \E k \in FailCodes : Raise(RuncError("runc", k))
          /\ UNCHANGED <<procVars, pidfile, cfds>>
       \/ /\ ~rtExists[cur]
          /\ rtExists' = [rtExists EXCEPT ![cur] = TRUE]
          /\ proc' = [proc EXCEPT ![cur] = "init"]
          /\ isChild' = [isChild EXCEPT ![cur] = subreaper]
          /\ pidfile' = [pidfile EXCEPT ![cur] = IntToStr(PidOf(cur))]
          /\ cfds' = [cfds EXCEPT ![cur] = "open"]
          /\ pc' = "c_state"
          /\ UNCHANGED <<exc, wstatus, pendsig>>
    /\ UNCHANGED <<callVars, execVars, batch, todo, nsig, escaped, unwinding,
                   killlog, conVars, lockfile, cfg, rundir, lockVars, ioVars, pumpVars,
                   host_tty, use_tty, tty_raw, old_tty_settings, tty_log, out_tty,
                   orphan, pumps, tdlog, rc_cond, fnVars>>

CreateState ==
    /\ pc = "c_state"
    /\ cmdlog' = Append(cmdlog, "state")
    /\ sigq' = Chld(sigq)
    /\ status' = [status EXCEPT ![cur] = RuntimeStatus(cur)]
    /\ cpid' = [cpid EXCEPT ![cur] = IF RuntimePid(cur) # 0 THEN RuntimePid(cur) ELSE @]
    /\ IF RuntimeStatus(cur) # "created"
       THEN /\ Raise(RuncError("unexpected_status", DefaultErrorCode))
            /\ UNCHANGED <<containers, pumps>>
       ELSE /\ containers' = RegistryPut(containers, cur)
            /\ pumps' = [pumps EXCEPT ![cur] = "alive"]
            /\ Return("r_resize")
            /\ exc' = exc
    /\ UNCHANGED <<callVars, closing, running, returncode, handlers, subreaper,
                   batch, todo, nsig, escaped, unwinding, killlog, crc, cclosing,
                   procVars, fileVars, lockVars, ioVars, pumpVars, ttyVars, orphan,
                   cfds, tdlog, rc_cond, fnVars>>

\* --------------------------------------------------------- start_container
\* A faulty variant that looks at the pid only.
cannot_start_pid_only(pid, st) == pid = None

\* if not container.pid or container.status != 'created'
cannot_start(pid, st) == pid = None \/ st # "created"

StartRun ==
    /\ pc = "s_start"
    /\ IF cannot_start(cpid[cur], status[cur])
       THEN /\ Raise(PyError("RuntimeError", "cannot_start"))
            /\ UNCHANGED <<cmdlog, sigq, proc>>
       ELSE /\ cmdlog' = Append(cmdlog, "start")
            /\ sigq' = Chld(sigq)
            /\ \/ /\ \E k \in FailCodes : Raise(RuncError("runc", k))
                  /\ UNCHANGED proc
               \/ /\ rtExists[cur]
                  /\ proc[cur] = "init"
                  /\ proc' = [proc EXCEPT ![cur] = "running"]
                  /\ pc' = "s_state"
                  /\ exc' = exc
    /\ UNCHANGED <<callVars, execVars, batch, todo, nsig, escaped, unwinding,
                   killlog, conVars, wstatus, pendsig, isChild, rtExists,
                   fileVars, lockVars, ioVars, pumpVars, moreVars>>

StartState ==
    /\ pc = "s_state"
    /\ cmdlog' = Append(cmdlog, "state")
    /\ sigq' = Chld(sigq)
    /\ status' = [status EXCEPT ![cur] = RuntimeStatus(cur)]
    /\ cpid' = [cpid EXCEPT ![cur] = IF RuntimePid(cur) # 0 THEN RuntimePid(cur) ELSE @]
    /\ IF RuntimeStatus(cur) # "running"
       THEN Raise(RuncError("unexpected_status", DefaultErrorCode))
       ELSE Return("r_loop") /\ exc' = exc
    /\ UNCHANGED <<callVars, execVars, batch, todo, nsig, escaped, unwinding,
                   killlog, crc, cclosing, procVars, fileVars, lockVars, ioVars, pumpVars, moreVars>>

\* -------------------------------------------------------- remove_container
\* A faulty variant that refuses only a running container.
not_stopped_running_only(st) == st = "running"

\* if state['status'] != 'stopped'
not_stopped(st) == st # "stopped"

RemoveState ==
    /\ pc = "rm_state"
    /\ cmdlog' = Append(cmdlog, "state")
    /\ sigq' = Chld(sigq)
    /\ IF ~rtExists[cur]
       THEN Return("t_close") /\ exc' = exc
       ELSE IF not_stopped(RuntimeStatus(cur))
       THEN Raise(RuncError("not_stopped", DefaultErrorCode))
       ELSE pc' = "rm_delete" /\ exc' = exc
    /\ UNCHANGED <<callVars, execVars, batch, todo, nsig, escaped, unwinding,
                   killlog, conVars, procVars, fileVars, lockVars, ioVars, pumpVars, moreVars>>

RemoveDelete ==
    /\ pc = "rm_delete"
    /\ cmdlog' = Append(cmdlog, "delete")
    /\ sigq' = Chld(sigq)
    /\ \/ /\ \E k \in FailCodes : Raise(RuncError("runc", k))
          /\ UNCHANGED <<rtExists, pidfile, lockfile, containers, status>>
       \/ /\ rtExists' = [rtExists EXCEPT ![cur] = FALSE]
          /\ pidfile' = [pidfile EXCEPT ![cur] = NoFile]
          /\ lockfile' = [lockfile EXCEPT ![cur] = NoFile]
          /\ containers' = IF cpid[cur] # None THEN RegistryDel(containers, cur)
                           ELSE containers
          /\ status' = [status EXCEPT ![cur] = "removed"]
          /\ Return("t_close")
          /\ exc' = exc
    /\ UNCHANGED <<callVars, closing, running, returncode, handlers, subreaper,
                   batch, todo, nsig, escaped, unwinding, killlog, cpid, crc,
                   cclosing, proc, wstatus, pendsig, isChild, cfg, rundir,
                   lockVars, ioVars, pumpVars, moreVars>>

\* ------------------------------------------------------------------- _reap
\* waitpid(-1, WNOHANG) until no zombie is left: every zombie child is
\* reaped; a registered container gets its returncode unless it has one.
\* A faulty variant that reaps without recording the returncode.
ReapReturncodeDropped(old, sts) == old

ReapReturncode(old, sts) == IF old = None THEN compute_returncode(sts) ELSE old

Zombies == {c \in Containers : proc[c] = "zombie" /\ isChild[c]}

\* Whether the code that assigns Container.returncode runs inside a
\* `with self._condition` block: _reap does; Container._wait takes no lock
\* and its callers, Container.close from the executor's _close among them,
\* call it outside any such block.
condition_at(path) == IF path = "reap" THEN "held" ELSE "free"

Reap ==
    /\ proc' = [c \in Containers |-> IF c \in Zombies THEN "gone" ELSE proc[c]]
    /\ crc' = [c \in Containers |->
                 IF c \in Zombies /\ InRegistry(c)
                 THEN ReapReturncode(crc[c], wstatus[c]) ELSE crc[c]]
    /\ orphan' = IF orphan = "zombie" THEN "reaped" ELSE orphan
    /\ rc_cond' = [c \in Containers |->
                     IF c \in Zombies /\ InRegistry(c) /\ crc[c] = None
                     THEN condition_at("reap") ELSE rc_cond[c]]

\* ------------------------------------------------------------ _send_signal
\* kill(pid, sig) goes to the registered containers that have no returncode,
\* in registry order; a pid that no longer exists raises ProcessLookupError
\* and ends the loop.
\* A faulty variant that signals every registered container.
SignalTargetAll(c) == TRUE

SignalTarget(c) == crc[c] = None

Targets == SelectSeq(containers, SignalTarget)

FirstGone(seq) ==
    IF \E i \in 1..Len(seq) : proc[seq[i]] \in {"none", "gone"}
    THEN CHOOSE i \in 1..Len(seq) :
            /\ proc[seq[i]] \in {"none", "gone"}
            /\ \A j \in 1..(i - 1) : proc[seq[j]] \notin {"none", "gone"}
    ELSE Len(seq) + 1

Killed == SubSeq(Targets, 1, FirstGone(Targets) - 1)

SendSignalRaises == FirstGone(Targets) <= Len(Targets)

SendSignal(sig) ==
    /\ killlog' = [i \in 1..Len(Killed) |-> <<cpid[Killed[i]], sig>>]
    /\ pendsig' = [c \in Containers |->
                     IF (\E i \in 1..Len(Killed) : Killed[i] = c)
                        /\ proc[c] \in {"init", "running"}
                     THEN sig ELSE pendsig[c]]

\* --------------------------------------------------------- _get_returncode
\* A faulty variant that takes a returncode still None for a non-zero one.
RECURSIVE FirstNonzeroOrNone(_)
FirstNonzeroOrNone(reg) ==
    IF reg = <<>> THEN 0
    ELSE IF crc[Head(reg)] # 0 THEN crc[Head(reg)]
    ELSE FirstNonzeroOrNone(Tail(reg))

RECURSIVE FirstNonzero(_)
FirstNonzero(reg) ==
    IF reg = <<>> THEN 0
    ELSE IF crc[Head(reg)] # None /\ crc[Head(reg)] # 0 THEN crc[Head(reg)]
    ELSE FirstNonzero(Tail(reg))

get_returncode == IF containers = <<>> THEN None ELSE FirstNonzero(containers)

\* ------------------------------------------- Container._wait, Container.close
\* waitpid is called only without a returncode and with a pid.
\* A faulty variant that waits again on a handle that has its returncode.
WaitSkipsNoPid(rc, pid) == pid = None

WaitSkips(rc, pid) == rc # None \/ pid = None

\* A blocking waitpid on a live child does not return.
WaitBlocks(c) ==
    /\ ~WaitSkips(crc[c], cpid[c])
    /\ isChild[c]
    /\ proc[c] \in {"init", "running"}

\* A faulty variant without the sentinel for ChildProcessError.
WaitReturncodeNoSentinel(c) ==
    IF WaitSkips(crc[c], cpid[c]) THEN crc[c]
    ELSE IF isChild[c] /\ proc[c] = "zombie" THEN compute_returncode(wstatus[c])
    ELSE None

WaitReturncode(c) ==
    IF WaitSkips(crc[c], cpid[c]) THEN crc[c]
    ELSE IF isChild[c] /\ proc[c] = "zombie" THEN compute_returncode(wstatus[c])
    ELSE IF isChild[c] /\ proc[c] \in {"init", "running"} THEN None
    ELSE ReapedElsewhere

WaitProc(c) ==
    IF ~WaitSkips(crc[c], cpid[c]) /\ isChild[c] /\ proc[c] = "zombie"
    THEN "gone" ELSE proc[c]

Wait(c) ==
    /\ crc' = [crc EXCEPT ![c] = WaitReturncode(c)]
    /\ proc' = [proc EXCEPT ![c] = WaitProc(c)]
    /\ rc_cond' = [rc_cond EXCEPT ![c] =
                     IF WaitReturncode(c) # crc[c] THEN condition_at("wait") ELSE @]

\* close() acts once: the first call waits (blocking), stops and joins the
\* I/O threads and closes the owned fds.
CloseBlocks(c) == cclosing[c] = "None" /\ WaitBlocks(c)

\* The I/O threads are joined and the fds closed.
Released(state, from, to) == IF state = from THEN to ELSE state

ContainerClose(c) ==
    IF cclosing[c] = "None"
    THEN /\ Wait(c)
         /\ cclosing' = [cclosing EXCEPT ![c] = "False"]
         /\ pumps' = [pumps EXCEPT ![c] = Released(@, "alive", "joined")]
         /\ cfds' = [cfds EXCEPT ![c] = Released(@, "open", "closed")]
    ELSE UNCHANGED <<crc, proc, cclosing, pumps, cfds, rc_cond>>

\* ------------------------------------------------------- run_until_complete
\* A faulty variant of the entry check that lets a closed executor run again.
run_guard_open(cl) == "ok"

\* with self._condition: if self._closing: raise RuntimeError
run_guard(cl) == IF cl THEN "closing" ELSE "ok"

RunEntry ==
    /\ pc = "r_entry"
    /\ IF run_guard(closing) # "ok"
       THEN pc' = "r_propagated" /\ escaped' = "entry"
       ELSE pc' = "r_setup" /\ escaped' = escaped
    /\ UNCHANGED <<callVars, execVars, loopVars, exc, unwinding, logVars,
                   conVars, procVars, fileVars, lockVars, ioVars, pumpVars, moreVars>>

\* A faulty variant of _setup_tty that does not look at the host's streams.
setup_tty_raw_any_stream(host, use, same) ==
    IF host = "none" THEN "None" ELSE IF use THEN "True" ELSE "False"

\* _setup_tty: tty_raw stays None when no host stream is a terminal
\* (tty_fd is None); otherwise it is whether the container asks for a tty
\* and stdin and stdout are the same terminal.
setup_tty_raw(host, use, same) ==
    IF host = "none" THEN "None" ELSE IF use /\ same THEN "True" ELSE "False"

\* _set_tty_raw and _reset_tty act only with a host terminal, tty_raw true
\* and the saved-settings slot empty, respectively filled.
SetsRaw(raw, saved) == raw = "True" /\ saved = "None"
Resets(raw, saved) == raw = "True" /\ saved # "None"

\* A variant of _reset_tty that keeps the saved settings.
slot_after_reset_kept(saved) == saved

\* _reset_tty empties the slot once the settings are re-applied.
slot_after_reset(saved) == "None"

\* _setup_stdio, _setup_tty, _setup_signals, _set_subreaper(True); then
\* create_container is entered.  The setup can fail in _setup_stdio, before
\* anything is done, or in _setup_signals, after the terminal was set up.
RunSetup ==
    /\ pc = "r_setup"
    /\ cmdlog' = <<>>
    /\ \E fails \in {"no", "stdio", "signals"} :
          /\ IF fails = "stdio"
             THEN UNCHANGED ttyVars
             ELSE /\ tty_raw' = setup_tty_raw(host_tty, use_tty, out_tty)
                  /\ use_tty' = (use_tty /\ tty_raw' = "True")
                  /\ UNCHANGED <<out_tty, cpath>>
                  /\ IF SetsRaw(tty_raw', old_tty_settings)
                     THEN /\ old_tty_settings' = host_tty
                          /\ host_tty' = "raw"
                          /\ tty_log' = Append(tty_log, "setraw")
                     ELSE UNCHANGED <<old_tty_settings, host_tty, tty_log>>
          /\ IF fails = "no"
             THEN /\ handlers' = TRUE
                  /\ subreaper' = TRUE
                  /\ pc' = "c_check"
                  /\ exc' = exc
             ELSE /\ Raise(PyError("OSError", "setup"))
                  /\ UNCHANGED <<handlers, subreaper>>
    /\ UNCHANGED <<callVars, closing, running, returncode, containers, loopVars,
                   escaped, unwinding, killlog, conVars, procVars, fileVars,
                   lockVars, ioVars, pumpVars, resVars, fnVars>>

\* The initial _resize_tty; then start_container is entered.
RunResize ==
    /\ pc = "r_resize"
    /\ cmdlog' = <<>>
    /\ pc' = "s_start"
    /\ UNCHANGED <<callVars, execVars, loopVars, excVars, killlog, conVars,
                   procVars, fileVars, lockVars, ioVars, pumpVars, moreVars>>

\* A faulty variant of the loop's entry that starts from an empty self-pipe.
LoopEnterDrained ==
    /\ pc = "r_loop"
    /\ running' = TRUE
    /\ sigq' = <<>>
    /\ pc' = "r_recv"
    /\ UNCHANGED <<callVars, closing, returncode, containers, handlers,
                   subreaper, batch, todo, nsig, excVars, logVars, conVars,
                   procVars, fileVars, lockVars, ioVars, pumpVars, moreVars>>

\* _process_signals
LoopEnter ==
    /\ pc = "r_loop"
    /\ running' = TRUE
    /\ pc' = "r_recv"
    /\ UNCHANGED <<callVars, closing, returncode, containers, handlers,
                   subreaper, loopVars, excVars, logVars, conVars, procVars,
                   fileVars, lockVars, ioVars, pumpVars, moreVars>>

\* recv(4096) on the self-pipe blocks until there is a byte.
LoopRecv ==
    /\ pc = "r_recv"
    /\ sigq # <<>>
    /\ batch' = sigq
    /\ sigq' = <<>>
    /\ pc' = "r_handle"
    /\ UNCHANGED <<callVars, execVars, todo, nsig, excVars, logVars, conVars,
                   procVars, fileVars, lockVars, ioVars, pumpVars, moreVars>>

AfterByte == IF Tail(batch) = <<>> THEN "r_check" ELSE "r_handle"

LoopHandle ==
    /\ pc = "r_handle"
    /\ batch # <<>>
    /\ batch' = Tail(batch)
    /\ LET sig == Head(batch) IN
         IF sig = SIGCHLD
         THEN /\ Reap
              /\ pc' = AfterByte
              /\ UNCHANGED <<killlog, pendsig, exc, running>>
         ELSE IF sig = SIGWINCH
         THEN /\ pc' = AfterByte
              /\ UNCHANGED <<killlog, pendsig, exc, running, proc, crc, orphan, rc_cond>>
         ELSE IF sig \in FORWARD_SIGNALS
         THEN /\ SendSignal(sig)
              /\ IF SendSignalRaises
                 THEN /\ running' = FALSE
                      /\ Raise(PyError("ProcessLookupError", "kill"))
                 ELSE /\ pc' = AfterByte
                      /\ UNCHANGED <<exc, running>>
              /\ UNCHANGED <<proc, crc, orphan, rc_cond>>
         ELSE /\ pc' = AfterByte
              /\ UNCHANGED <<killlog, pendsig, exc, running, proc, crc, orphan, rc_cond>>
    /\ UNCHANGED <<callVars, closing, returncode, containers, handlers,
                   subreaper, sigq, todo, nsig, escaped, unwinding, cmdlog,
                   cpid, status, cclosing, wstatus, isChild, rtExists,
                   fileVars, lockVars, ioVars, pumpVars, ttyVars, cfds, pumps,
                   tdlog, fnVars>>

\* A faulty variant of the loop's exit test that looks at the processes, not
\* at the returncodes.
StillAliveByProcess(c) == proc[c] \in {"init", "running"}

StillAlive(c) == crc[c] = None

Alive == SelectSeq(containers, StillAlive)

LoopCheck ==
    /\ pc = "r_check"
    /\ IF Alive = <<>>
       THEN running' = FALSE /\ pc' = "r_getrc"
       ELSE running' = running /\ pc' = "r_recv"
    /\ UNCHANGED <<callVars, closing, returncode, containers, handlers,
                   subreaper, loopVars, excVars, logVars, conVars, procVars,
                   fileVars, lockVars, ioVars, pumpVars, moreVars>>

\* self.returncode = self._get_returncode(); then remove_container if asked.
RunGetReturncode ==
    /\ pc = "r_getrc"
    /\ returncode' = get_returncode
    /\ cmdlog' = <<>>
    /\ pc' = IF remove THEN "rm_state" ELSE "t_close"
    /\ UNCHANGED <<callVars, closing, running, containers, handlers, subreaper,
                   loopVars, excVars, killlog, conVars, procVars, fileVars,
                   lockVars, ioVars, pumpVars, moreVars>>

\* except Exception as e
\* A faulty variant that maps every exception to 1.
ExceptionCodeAlwaysOne(e) == 1

ExceptionCode(e) == IF e.kind = "RuncError" THEN e.code ELSE 1

Catches(e) == TRUE

RunExcept ==
    /\ pc = "r_except"
    /\ IF Catches(exc)
       THEN /\ returncode' = ExceptionCode(exc)
            /\ UNCHANGED <<escaped, unwinding>>
       ELSE /\ escaped' = "try"
            /\ unwinding' = TRUE
            /\ UNCHANGED returncode
    /\ pc' = "t_close"
    /\ UNCHANGED <<callVars, closing, running, containers, handlers, subreaper,
                   loopVars, exc, logVars, conVars, procVars, fileVars,
                   lockVars, ioVars, pumpVars, moreVars>>

\* finally: _close()
CloseBegin ==
    /\ pc = "t_close"
    /\ closing' = TRUE
    /\ todo' = containers
    /\ pc' = "t_con"
    /\ UNCHANGED <<callVars, running, returncode, containers, handlers,
                   subreaper, sigq, batch, nsig, excVars, logVars, conVars,
                   procVars, fileVars, lockVars, ioVars, pumpVars, moreVars>>

CloseContainer ==
    /\ pc = "t_con"
    /\ todo # <<>>
    /\ ~CloseBlocks(Head(todo))
    /\ ContainerClose(Head(todo))
    /\ todo' = Tail(todo)
    /\ sigq' = sigq
    /\ pc' = "t_con"
    /\ UNCHANGED <<callVars, execVars, batch, nsig, excVars, logVars, cpid,
                   status, wstatus, pendsig, isChild, rtExists, fileVars,
                   lockVars, ioVars, pumpVars, ttyVars, orphan, tdlog, fnVars>>

\* A variant of the finally clause that leaves out _reset_tty.
finally_next_no_tty(step) ==
    CASE step = "close" -> "t_subreaper"
      [] step = "subreaper" -> "t_signals"
      [] step = "signals" -> "t_stdio"
      [] step = "tty" -> "t_stdio"

\* The finally clause of run_until_complete: what follows each step.
finally_next(step) ==
    CASE step = "close" -> "t_subreaper"
      [] step = "subreaper" -> "t_signals"
      [] step = "signals" -> "t_tty"
      [] step = "tty" -> "t_stdio"

\* run_until_complete's record of a teardown step it has completed.
Done(steps) == tdlog' = IF caller = "run" THEN tdlog \o steps ELSE tdlog

CloseEnd ==
    /\ pc = "t_con"
    /\ todo = <<>>
    /\ Return(finally_next("close"))
    /\ Done(<<"close">>)
    /\ UNCHANGED <<callVars, execVars, loopVars, excVars, logVars, conVars,
                   procVars, fileVars, lockVars, ioVars, pumpVars, ttyVars, orphan,
                   cfds, pumps, rc_cond, fnVars>>

\* _set_subreaper(False)
TeardownSubreaper ==
    /\ pc = "t_subreaper"
    /\ subreaper' = FALSE
    /\ pc' = finally_next("subreaper")
    /\ Done(<<"subreaper">>)
    /\ UNCHANGED <<callVars, closing, running, returncode, containers, handlers,
                   loopVars, excVars, logVars, conVars, procVars, fileVars,
                   lockVars, ioVars, pumpVars, ttyVars, orphan, cfds, pumps, rc_cond, fnVars>>

\* _restore_signals: handlers restored, wakeup fd cleared, self-pipe closed.
TeardownSignals ==
    /\ pc = "t_signals"
    /\ handlers' = FALSE
    /\ sigq' = <<>>
    /\ batch' = <<>>
    /\ pc' = finally_next("signals")
    /\ Done(<<"signals", "sockets">>)
    /\ UNCHANGED <<callVars, closing, running, returncode, containers,
                   subreaper, todo, nsig, excVars, logVars, conVars, procVars,
                   fileVars, lockVars, ioVars, pumpVars, ttyVars, orphan, cfds,
                   pumps, rc_cond, fnVars>>

\* _reset_tty
TeardownTty ==
    /\ pc = "t_tty"
    /\ pc' = finally_next("tty")
    /\ Done(<<"tty">>)
    /\ IF Resets(tty_raw, old_tty_settings)
       THEN /\ host_tty' = old_tty_settings
            /\ old_tty_settings' = slot_after_reset(old_tty_settings)
            /\ tty_log' = Append(tty_log, "tcsetattr")
       ELSE UNCHANGED <<host_tty, old_tty_settings, tty_log>>
    /\ UNCHANGED <<callVars, execVars, loopVars, excVars, logVars, conVars,
                   procVars, fileVars, lockVars, ioVars, pumpVars, use_tty, tty_raw,
                   out_tty, cpath, orphan, cfds, pumps, rc_cond, fnVars>>

\* _close_stdio; return self.returncode, or the pending exception goes on.
TeardownStdio ==
    /\ pc = "t_stdio"
    /\ pc' = IF unwinding THEN "r_propagated" ELSE "r_returned"
    /\ Done(<<"stdio">>)
    /\ UNCHANGED <<callVars, execVars, loopVars, excVars, logVars, conVars,
                   procVars, fileVars, lockVars, ioVars, pumpVars, ttyVars, orphan,
                   cfds, pumps, rc_cond, fnVars>>

\* A later run_until_complete on the same executor.
RunAgain ==
    /\ pc = "r_returned"
    /\ caller = "run"
    /\ pc' = "r_entry"
    /\ UNCHANGED <<callVars, execVars, loopVars, excVars, logVars, conVars,
                   procVars, fileVars, lockVars, ioVars, pumpVars, moreVars>>

\* A later create_container on the same executor: the checks under the
\* condition come first, and a refusal goes straight to the caller.
CreateAfterRun ==
    /\ pc = "r_returned"
    /\ caller = "run"
    /\ IF create_guard(closing, cpid[cur]) # "ok"
       THEN /\ exc' = PyError("RuntimeError", create_guard(closing, cpid[cur]))
            /\ pc' = "r_rejected"
            /\ caller' = caller
       ELSE /\ exc' = exc
            /\ pc' = "c_check"
            /\ caller' = "api"
    /\ UNCHANGED <<cur, remove, escaped, unwinding>>
    /\ UNCHANGED <<execVars, loopVars, logVars, conVars, procVars, fileVars,
                   lockVars, ioVars, pumpVars, moreVars>>

Finished == {"r_returned", "r_propagated"}

\* ------------------------------------------------- calls through the API
ApiCreate(c) ==
    /\ pc = "idle"
    /\ caller = "api"
    /\ cur' = c
    /\ exc' = NoExc
    /\ cmdlog' = <<>>
    /\ pc' = "c_check"
    /\ UNCHANGED <<caller, remove, execVars, loopVars, escaped, unwinding,
                   killlog, conVars, procVars, fileVars, lockVars, ioVars, pumpVars, moreVars>>

ApiStart(c) ==
    /\ pc = "idle"
    /\ caller = "api"
    /\ cur' = c
    /\ exc' = NoExc
    /\ cmdlog' = <<>>
    /\ pc' = "s_start"
    /\ UNCHANGED <<caller, remove, execVars, loopVars, escaped, unwinding,
                   killlog, conVars, procVars, fileVars, lockVars, ioVars, pumpVars, moreVars>>

ApiRemove(c) ==
    /\ pc = "idle"
    /\ caller = "api"
    /\ cur' = c
    /\ exc' = NoExc
    /\ cmdlog' = <<>>
    /\ pc' = "rm_state"
    /\ UNCHANGED <<caller, remove, execVars, loopVars, escaped, unwinding,
                   killlog, conVars, procVars, fileVars, lockVars, ioVars, pumpVars, moreVars>>

\* _get_container_state(container, update=True)
ApiGetState(c) ==
    /\ pc = "idle"
    /\ caller = "api"
    /\ cur' = c
    /\ cmdlog' = <<"state">>
    /\ IF ~rtExists[c]
       THEN /\ exc' = RuncError("runc", DefaultErrorCode)
            /\ UNCHANGED <<status, cpid>>
       ELSE /\ exc' = NoExc
            /\ status' = [status EXCEPT ![c] = RuntimeStatus(c)]
            /\ cpid' = [cpid EXCEPT ![c] = IF RuntimePid(c) # 0 THEN RuntimePid(c) ELSE @]
    /\ UNCHANGED <<pc, caller, remove, execVars, loopVars, escaped, unwinding,
                   killlog, crc, cclosing, procVars, fileVars, lockVars, ioVars, pumpVars, moreVars>>

ApiReap ==
    /\ pc = "idle"
    /\ Zombies # {}
    /\ Reap
    /\ exc' = NoExc
    /\ UNCHANGED <<pc, callVars, execVars, loopVars, escaped, unwinding,
                   logVars, cpid, status, cclosing, wstatus, pendsig, isChild,
                   rtExists, fileVars, lockVars, ioVars, pumpVars, ttyVars, cfds,
                   pumps, tdlog, fnVars>>

ApiSendSignal(sig) ==
    /\ pc = "idle"
    /\ SendSignal(sig)
    /\ exc' = IF SendSignalRaises THEN PyError("ProcessLookupError", "kill") ELSE NoExc
    /\ UNCHANGED <<pc, callVars, execVars, loopVars, escaped, unwinding,
                   cmdlog, conVars, proc, wstatus, isChild, rtExists,
                   fileVars, lockVars, ioVars, pumpVars, moreVars>>

\* Container.wait(blocking=False)
ApiWaitNoHang(c) ==
    /\ pc = "idle"
    /\ caller = "api"
    /\ Wait(c)
    /\ exc' = NoExc
    /\ UNCHANGED <<pc, callVars, execVars, loopVars, escaped, unwinding,
                   logVars, cpid, status, cclosing, wstatus, pendsig, isChild,
                   rtExists, fileVars, lockVars, ioVars, pumpVars, ttyVars,
                   orphan, cfds, pumps, tdlog, fnVars>>

\* Container.close()
ApiClose(c) ==
    /\ pc = "idle"
    /\ caller = "api"
    /\ cur' = c
    /\ exc' = NoExc
    /\ pc' = "k_close"
    /\ UNCHANGED <<caller, remove, execVars, loopVars, escaped, unwinding,
                   logVars, conVars, procVars, fileVars, lockVars, ioVars, pumpVars, moreVars>>

ApiCloseDone ==
    /\ pc = "k_close"
    /\ ~CloseBlocks(cur)
    /\ ContainerClose(cur)
    /\ pc' = "idle"
    /\ UNCHANGED <<callVars, execVars, loopVars, excVars, logVars, cpid,
                   status, wstatus, pendsig, isChild, rtExists, fileVars,
                   lockVars, ioVars, pumpVars, ttyVars, orphan, tdlog, fnVars>>

\* RuncExecutor._close()
ApiExecClose ==
    /\ pc = "idle"
    /\ caller = "api"
    /\ exc' = NoExc
    /\ pc' = "t_close"
    /\ UNCHANGED <<callVars, execVars, loopVars, escaped, unwinding, logVars,
                   conVars, procVars, fileVars, lockVars, ioVars, pumpVars, moreVars>>

\* self._get_returncode(), kept as run_until_complete keeps it
ApiGetReturncode ==
    /\ pc = "idle"
    /\ returncode' = get_returncode
    /\ exc' = NoExc
    /\ UNCHANGED <<pc, callVars, closing, running, containers, handlers,
                   subreaper, loopVars, escaped, unwinding, logVars, conVars,
                   procVars, fileVars, lockVars, ioVars, pumpVars, moreVars>>

ApiSetSubreaper(target) ==
    /\ pc = "idle"
    /\ caller = "api"
    /\ subreaper # target
    /\ subreaper' = target
    /\ UNCHANGED <<pc, callVars, closing, running, returncode, containers,
                   handlers, loopVars, excVars, logVars, conVars, procVars,
                   fileVars, lockVars, ioVars, pumpVars, moreVars>>

\* ------------------------------------------------------------- environment
\* The container's process exits by itself.
ProcExit(c, code) ==
    /\ proc[c] = "running"
    /\ proc' = [proc EXCEPT ![c] = IF isChild[c] THEN "zombie" ELSE "gone"]
    /\ wstatus' = [wstatus EXCEPT ![c] = ExitedStatus(code)]
    /\ pendsig' = [pendsig EXCEPT ![c] = 0]
    /\ sigq' = IF isChild[c] THEN Chld(sigq) ELSE sigq
    /\ UNCHANGED <<pc, callVars, execVars, batch, todo, nsig, excVars, logVars,
                   conVars, isChild, rtExists, fileVars, lockVars, ioVars, pumpVars, moreVars>>

\* It is terminated by a signal the supervisor sent it.
ProcSignalled(c) ==
    /\ proc[c] \in {"init", "running"}
    /\ pendsig[c] # 0
    /\ proc' = [proc EXCEPT ![c] = IF isChild[c] THEN "zombie" ELSE "gone"]
    /\ wstatus' = [wstatus EXCEPT ![c] = SignaledStatus(pendsig[c])]
    /\ pendsig' = [pendsig EXCEPT ![c] = 0]
    /\ sigq' = IF isChild[c] THEN Chld(sigq) ELSE sigq
    /\ UNCHANGED <<pc, callVars, execVars, batch, todo, nsig, excVars, logVars,
                   conVars, isChild, rtExists, fileVars, lockVars, ioVars, pumpVars, moreVars>>

\* It handles or ignores the signal.
ProcHandles(c) ==
    /\ proc[c] = "running"
    /\ pendsig[c] # 0
    /\ pendsig' = [pendsig EXCEPT ![c] = 0]
    /\ UNCHANGED <<pc, callVars, execVars, loopVars, excVars, logVars, conVars,
                   proc, wstatus, isChild, rtExists, fileVars, lockVars, ioVars, pumpVars, moreVars>>

\* A signal with a no-op handler reaches the supervisor: its number is
\* written to the self-pipe.
SigArrive(sig) ==
    /\ handlers
    /\ nsig < MaxSignals
    /\ nsig' = nsig + 1
    /\ sigq' = Append(sigq, sig)
    /\ UNCHANGED <<pc, callVars, execVars, batch, todo, excVars, logVars,
                   conVars, procVars, fileVars, lockVars, ioVars, pumpVars, moreVars>>

\* SIGABRT reaches the supervisor: _raise_sighandler raises in the main
\* thread, wherever it is.
TryLabels == {"c_check", "c_lock", "c_write", "c_create", "c_state", "r_resize", "s_start", "s_state",
              "r_loop", "r_recv", "r_handle", "r_check", "r_getrc", "rm_state",
              "rm_delete"}
LoopLabels == {"r_recv", "r_handle", "r_check"}
FinallyLabels == {"t_close", "t_con", "t_subreaper", "t_signals"}

SigAbort ==
    /\ handlers
    /\ caller = "run"
    /\ nsig < MaxSignals
    /\ nsig' = nsig + 1
    /\ sigq' = Append(sigq, SIGABRT)
    /\ \/ /\ pc \in TryLabels
          /\ exc' = PyError("Exception", "signal")
          /\ running' = IF pc \in LoopLabels THEN FALSE ELSE running
          /\ pc' = "r_except"
          /\ UNCHANGED <<escaped, unwinding>>
       \/ /\ pc = "r_except"
          /\ escaped' = "except"
          /\ unwinding' = TRUE
          /\ pc' = "t_close"
          /\ UNCHANGED <<exc, running>>
       \/ /\ pc \in FinallyLabels
          /\ escaped' = "teardown"
          /\ pc' = "r_propagated"
          /\ UNCHANGED <<exc, running, unwinding>>
    /\ UNCHANGED <<callVars, closing, returncode, containers, handlers,
                   subreaper, batch, todo, logVars, conVars, procVars,
                   fileVars, lockVars, ioVars, pumpVars, moreVars>>

\* A descendant of a container process loses its parent while the
\* supervisor is a subreaper: it becomes a child of the supervisor.
OrphanAdopt ==
    /\ caller = "run"
    /\ subreaper
    /\ orphan = "none"
    /\ \E c \in Containers : isChild[c] /\ proc[c] \in {"init", "running"}
    /\ orphan' = "running"
    /\ UNCHANGED <<pc, callVars, execVars, loopVars, excVars, logVars, conVars,
                   procVars, fileVars, lockVars, ioVars, pumpVars, ttyVars, cfds,
                   pumps, tdlog, rc_cond, fnVars>>

\* The adopted process exits: a zombie child of the supervisor and a SIGCHLD.
OrphanExit ==
    /\ caller = "run"
    /\ orphan = "running"
    /\ orphan' = "zombie"
    /\ sigq' = Chld(sigq)
    /\ UNCHANGED <<pc, callVars, execVars, batch, todo, nsig, excVars, logVars,
                   conVars, procVars, fileVars, lockVars, ioVars, pumpVars, ttyVars,
                   cfds, pumps, tdlog, rc_cond, fnVars>>

\* ------------------------------------------- two supervisors, one lockfile
\* Each supervisor goes through _check_container_lockfile,
\* _write_container_lockfile, update_spec_file and the runtime's `create`
\* for container c1, one system call at a time.
Bundle == "c1"
PastLock == {"l_spec", "l_create", "l_held"}

\* lockfile_path.read_text()
LockRead(s) ==
    /\ lpc[s] = "l_start"
    /\ lread' = [lread EXCEPT ![s] = lockfile[Bundle]]
    /\ lpc' = [lpc EXCEPT ![s] = "l_decide"]
    /\ UNCHANGED <<pc, callVars, execVars, loopVars, excVars, logVars, conVars,
                   procVars, fileVars, ioVars, pumpVars, moreVars>>

\* os.kill(pid, 0) on what was read
LockDecide(s) ==
    /\ lpc[s] = "l_decide"
    /\ lpc' = [lpc EXCEPT ![s] =
                 CASE check_container_lockfile(lread[s], s) = "raise" -> "l_raised"
                   [] check_container_lockfile(lread[s], s) = "unlink" -> "l_unlink"
                   [] OTHER -> "l_write"]
    /\ UNCHANGED <<pc, callVars, execVars, loopVars, excVars, logVars, conVars,
                   procVars, fileVars, lread, ioVars, pumpVars, moreVars>>

\* lockfile_path.unlink(); FileNotFoundError is caught
LockUnlink(s) ==
    /\ lpc[s] = "l_unlink"
    /\ lockfile' = [lockfile EXCEPT ![Bundle] = NoFile]
    /\ lpc' = [lpc EXCEPT ![s] = "l_write"]
    /\ UNCHANGED <<pc, callVars, execVars, loopVars, excVars, logVars, conVars,
                   procVars, pidfile, cfg, rundir, lread, ioVars, pumpVars, moreVars>>

\* lockfile_path.write_text(str(self.pid))
LockWrite(s) ==
    /\ lpc[s] = "l_write"
    /\ lockfile' = [lockfile EXCEPT ![Bundle] = write_container_lockfile(s)]
    /\ lpc' = [lpc EXCEPT ![s] = "l_spec"]
    /\ UNCHANGED <<pc, callVars, execVars, loopVars, excVars, logVars, conVars,
                   procVars, pidfile, cfg, rundir, lread, ioVars, pumpVars, moreVars>>

\* spec.update_spec_file(...)
LockSpec(s) ==
    /\ lpc[s] = "l_spec"
    /\ cfg' = [cfg EXCEPT ![Bundle] = update_spec_file(cfg[Bundle])]
    /\ lpc' = [lpc EXCEPT ![s] = "l_create"]
    /\ UNCHANGED <<pc, callVars, execVars, loopVars, excVars, logVars, conVars,
                   procVars, lockfile, pidfile, rundir, lread, ioVars, pumpVars, moreVars>>

\* the runtime's `create`: it fails when the runtime already has the name
LockCreate(s) ==
    /\ lpc[s] = "l_create"
    /\ IF rtExists[Bundle]
       THEN lpc' = [lpc EXCEPT ![s] = "l_failed"] /\ UNCHANGED rtExists
       ELSE /\ lpc' = [lpc EXCEPT ![s] = "l_held"]
            /\ rtExists' = [rtExists EXCEPT ![Bundle] = TRUE]
    /\ UNCHANGED <<pc, callVars, execVars, loopVars, excVars, logVars, conVars,
                   proc, wstatus, pendsig, isChild, fileVars, lread, ioVars, pumpVars, moreVars>>

\* remove_container: `delete`, then the lockfile is unlinked
LockRelease(s) ==
    /\ lpc[s] = "l_held"
    /\ rtExists' = [rtExists EXCEPT ![Bundle] = FALSE]
    /\ lockfile' = [lockfile EXCEPT ![Bundle] = NoFile]
    /\ lpc' = [lpc EXCEPT ![s] = "l_done"]
    /\ UNCHANGED <<pc, callVars, execVars, loopVars, excVars, logVars, conVars,
                   proc, wstatus, pendsig, isChild, pidfile, cfg, rundir,
                   lread, ioVars, pumpVars, moreVars>>

\* ------------------------------------------- Container.close, step by step
\* One handle, c1, on which close() is called again and again. The handle
\* owns up to MaxFds fds and up to MaxThreads I/O threads.
MaxFds == 2
MaxThreads == 2
MaxCloseCalls == 3

Handle == "c1"
SeqUpTo(n) == {[i \in 1..k |-> i] : k \in 0..n}
Elems(q) == {q[i] : i \in 1..Len(q)}

\* The handle as create_container and start_container, or a failed
\* create_container, may have left it: without a pid; with a pid whose
\* process is running, a zombie, or reaped by someone else. An fd of the
\* list may have been closed behind the handle's back; a thread may have
\* finished already.
InitClose ==
    /\ caller = "close"
    /\ pc = "idle"
    /\ remove = FALSE
    /\ InitHandles
    /\ InitNoPump
    /\ InitPlain
    /\ lockfile = [c \in Containers |-> NoFile]
    /\ pidfile = [c \in Containers |-> NoFile]
    /\ lpc = [s \in Sups |-> "off"]
    /\ lread = [s \in Sups |-> NoFile]
    /\ close_fds \in SeqUpTo(MaxFds)
    /\ io_threads \in SeqUpTo(MaxThreads)
    /\ stop_event \in {"None", "clear"}
    /\ io_threads # <<>> => stop_event = "clear"
    /\ fdopen \in SUBSET Elems(close_fds)
    /\ alive \in SUBSET Elems(io_threads)
    /\ oplog = <<>>
    /\ kret = <<>>
    /\ ncalls = 0

\* create_container and start_container have been called on the handle.
HandleStarted(child) ==
    /\ pc = "idle"
    /\ caller = "close"
    /\ ncalls = 0
    /\ cpid[Handle] = None
    /\ cpid' = [cpid EXCEPT ![Handle] = PidOf(Handle)]
    /\ status' = [status EXCEPT ![Handle] = "running"]
    /\ isChild' = [isChild EXCEPT ![Handle] = child]
    /\ proc' = [proc EXCEPT ![Handle] = "running"]
    /\ rtExists' = [rtExists EXCEPT ![Handle] = TRUE]
    /\ UNCHANGED <<pc, callVars, execVars, loopVars, excVars, logVars, crc,
                   cclosing, wstatus, pendsig, fileVars, lockVars, ioVars, pumpVars, moreVars>>

\* if self._closing is None
\* A faulty variant that also acts after an earlier close() has finished.
closes_unless_underway(cl) == cl # "True"

closes(cl) == cl = "None"

\* The finally clause of _close runs whether wait() returned or raised.
\* A faulty variant without the finally clause.
after_wait_no_finally(raised) == IF raised THEN "h_exit" ELSE "h_stop"

after_wait(raised) == "h_stop"

Log(op, arg) == oplog' = Append(oplog, <<ncalls, op, arg>>)

\* close(): `if self._closing is None: self._close()`, and inside _close
\* `self._closing = True`; otherwise `return self.returncode`.
HClose ==
    /\ pc = "idle"
    /\ caller = "close"
    /\ ncalls < MaxCloseCalls
    /\ ncalls' = ncalls + 1
    /\ exc' = NoExc
    /\ IF closes(cclosing[Handle])
       THEN /\ cclosing' = [cclosing EXCEPT ![Handle] = "True"]
            /\ pc' = "h_wait"
            /\ kret' = kret
       ELSE /\ cclosing' = cclosing
            /\ pc' = "idle"
            /\ kret' = Append(kret, <<"ret", crc[Handle]>>)
    /\ UNCHANGED <<callVars, execVars, loopVars, escaped, unwinding, logVars,
                   cpid, status, crc, procVars, fileVars, lockVars, pumpVars, moreVars, close_fds,
                   io_threads, stop_event, fdopen, alive, oplog>>

\* returncode = self.wait(): the blocking wait returns.
HWait ==
    /\ pc = "h_wait"
    /\ ~WaitBlocks(Handle)
    /\ Wait(Handle)
    /\ Log("wait", 0)
    /\ pc' = after_wait(FALSE)
    /\ UNCHANGED <<callVars, execVars, loopVars, excVars, logVars, cpid,
                   status, cclosing, wstatus, pendsig, isChild, rtExists,
                   fileVars, lockVars, pumpVars, ttyVars, orphan, cfds, pumps,
                   tdlog, fnVars, close_fds, io_threads, stop_event,
                   fdopen, alive, kret, ncalls>>

\* wait() raises: a signal handler raises while waitpid blocks.
HWaitRaises ==
    /\ pc = "h_wait"
    /\ WaitBlocks(Handle)
    /\ exc' = PyError("Exception", "signal")
    /\ Log("wait", 0)
    /\ pc' = after_wait(TRUE)
    /\ UNCHANGED <<callVars, execVars, loopVars, escaped, unwinding, logVars,
                   conVars, procVars, fileVars, lockVars, pumpVars, moreVars, close_fds,
                   io_threads, stop_event, fdopen, alive, kret, ncalls>>

\* if self._stop_event: self._stop_event.set()
HStop ==
    /\ pc = "h_stop"
    /\ IF stop_event # "None"
       THEN stop_event' = "set" /\ Log("stop", 0)
       ELSE UNCHANGED <<stop_event, oplog>>
    /\ pc' = "h_join"
    /\ UNCHANGED <<callVars, execVars, loopVars, excVars, logVars, conVars,
                   procVars, fileVars, lockVars, pumpVars, moreVars, close_fds, io_threads,
                   fdopen, alive, kret, ncalls>>

\* t = self._io_threads.popleft(); t.join(): join returns when the thread
\* has finished.
HJoin ==
    /\ pc = "h_join"
    /\ io_threads # <<>>
    /\ Head(io_threads) \notin alive
    /\ io_threads' = Tail(io_threads)
    /\ Log("join", Head(io_threads))
    /\ UNCHANGED <<pc, callVars, execVars, loopVars, excVars, logVars, conVars,
                   procVars, fileVars, lockVars, pumpVars, moreVars, close_fds, stop_event,
                   fdopen, alive, kret, ncalls>>

\* popleft raises IndexError: the thread list is empty.
HJoinDone ==
    /\ pc = "h_join"
    /\ io_threads = <<>>
    /\ pc' = "h_fds"
    /\ UNCHANGED <<callVars, execVars, loopVars, excVars, logVars, conVars,
                   procVars, fileVars, lockVars, ioVars, pumpVars, moreVars>>

\* fd = self._close_fds.popleft(); os.close(fd) or fd.close(). Closing an
\* fd that is not open raises OSError, which is swallowed.
HFd ==
    /\ pc = "h_fds"
    /\ close_fds # <<>>
    /\ close_fds' = Tail(close_fds)
    /\ fdopen' = fdopen \ {Head(close_fds)}
    /\ Log(IF Head(close_fds) \in fdopen THEN "close" ELSE "close_err", Head(close_fds))
    /\ UNCHANGED <<pc, callVars, execVars, loopVars, excVars, logVars, conVars,
                   procVars, fileVars, lockVars, pumpVars, moreVars, io_threads, stop_event,
                   alive, kret, ncalls>>

\* popleft raises IndexError: the fd list is empty; self._closing = False
HFdsDone ==
    /\ pc = "h_fds"
    /\ close_fds = <<>>
    /\ cclosing' = [cclosing EXCEPT ![Handle] = "False"]
    /\ pc' = "h_exit"
    /\ UNCHANGED <<callVars, execVars, loopVars, excVars, logVars, cpid,
                   status, crc, procVars, fileVars, lockVars, ioVars, pumpVars, moreVars>>

\* _close is left: the exception of wait() goes on to the caller of
\* close(), or close() returns self.returncode.
HExit ==
    /\ pc = "h_exit"
    /\ kret' = Append(kret, <<IF exc = NoExc THEN "ret" ELSE "raise", crc[Handle]>>)
    /\ pc' = "idle"
    /\ UNCHANGED <<callVars, execVars, loopVars, excVars, logVars, conVars,
                   procVars, fileVars, lockVars, pumpVars, moreVars, close_fds, io_threads,
                   stop_event, fdopen, alive, oplog, ncalls>>

\* An I/O thread finishes.
ThreadFinish(t) ==
    /\ caller = "close"
    /\ t \in alive
    /\ alive' = alive \ {t}
    /\ UNCHANGED <<pc, callVars, execVars, loopVars, excVars, logVars, conVars,
                   procVars, fileVars, lockVars, pumpVars, moreVars, close_fds, io_threads,
                   stop_event, fdopen, oplog, kret, ncalls>>

\* ------------------------------------------------------------------ iopump
\* One pump thread between a read endpoint that delivers the bytes of
\* Input, in order, and a write endpoint. bufsize is BufSize.
MaxBytes == 4
BufSize == 2
Input == [i \in 1..MaxBytes |-> i]
Min(a, b) == IF a < b THEN a ELSE b

InitPump ==
    /\ caller = "pump"
    /\ pc = "idle"
    /\ remove = FALSE
    /\ InitHandles
    /\ InitPlain
    /\ lockfile = [c \in Containers |-> NoFile]
    /\ pidfile = [c \in Containers |-> NoFile]
    /\ lpc = [s \in Sups |-> "off"]
    /\ lread = [s \in Sups |-> NoFile]
    /\ close_fds = <<>>
    /\ io_threads = <<>>
    /\ stop_event \in {"None", "clear"}
    /\ fdopen = {}
    /\ alive = {}
    /\ oplog = <<>>
    /\ kret = <<>>
    /\ ncalls = 0
    /\ ppc = "p_init"
    /\ source \in {SubSeq(Input, 1, k) : k \in 0..MaxBytes}
    /\ rdseq = <<>>
    /\ wrseq = <<>>
    /\ buf = <<>>
    /\ read_from \in {"open", "closed"}
    /\ write_to \in {"ok", "full", "closed"}
    /\ pipe_eof \in BOOLEAN
    /\ rlist = FALSE
    /\ wlist = FALSE
    /\ readable = FALSE
    /\ writeable = FALSE
    /\ pump_exc = "none"
    /\ rend = "none"
    /\ future \in {"None", "pending", "cancelled"}

\* What a pump does not touch; the stop event is only read by it.
pumpOthers == <<pc, callVars, execVars, loopVars, excVars, logVars, conVars,
                procVars, fileVars, lockVars, close_fds, io_threads, fdopen,
                alive, oplog, kret, ncalls, moreVars>>

\* An exception in the try block: the except clause keeps it, the finally
\* clause follows.
PumpRaise(e) ==
    /\ pump_exc' = e
    /\ ppc' = "p_finally"

\* The lines before the loop: write_to.isatty() (and fileno() for the
\* fstat) raise ValueError on a closed file object, outside the try
\* statement, so iopump is left by that exception at once; otherwise the
\* try block is entered: without a future, or with one that
\* set_running_or_notify_cancel() sets running, the loop begins; with a
\* cancelled future iopump returns through the finally clause.
PumpBegin ==
    /\ ppc = "p_init"
    /\ IF write_to = "closed"
       THEN ppc' = "p_raised" /\ future' = future
       ELSE IF future = "cancelled"
       THEN ppc' = "p_finally" /\ future' = future
       ELSE /\ ppc' = "p_top"
            /\ future' = IF future = "pending" THEN "running" ELSE future
    /\ UNCHANGED <<source, rdseq, wrseq, buf, read_from, write_to, pipe_eof,
                   rlist, wlist, readable, writeable, pump_exc, rend>>
    /\ UNCHANGED <<pumpOthers, stop_event>>

\* A faulty variant of the room test that still reads into a buffer of
\* bufsize bytes.
has_room_inclusive(b) == Len(b) <= BufSize

\* `elif len(buf) < bufsize:` -- read if room in buffer.
has_room(b) == Len(b) < BufSize

\* `while read_from or buf:` and the building of rlist and wlist; a read
\* end found closed is dropped; `break` with nothing to select on.
PumpTop ==
    /\ ppc = "p_top"
    /\ IF read_from = "None" /\ buf = <<>>
       THEN /\ ppc' = "p_finally"
            /\ UNCHANGED <<read_from, rend, rlist, wlist>>
       ELSE /\ read_from' = IF read_from = "closed" THEN "None" ELSE read_from
            /\ rend' = IF read_from = "closed" THEN "rclosed" ELSE rend
            /\ rlist' = (read_from = "open" /\ has_room(buf))
            /\ wlist' = (buf # <<>>)
            /\ ppc' = IF ~rlist' /\ ~wlist' THEN "p_finally" ELSE "p_select"
    /\ UNCHANGED <<source, rdseq, wrseq, buf, write_to, pipe_eof, readable,
                   writeable, pump_exc>>
    /\ UNCHANGED <<pumpOthers, stop_event, future>>

\* select.select(rlist, wlist, [], select_timeout): a closed file object in
\* a list raises ValueError; with pipe_eof a write end whose peer is gone
\* is readable and BrokenPipeError is raised; otherwise it returns, by
\* readiness or by the timeout: the read end is reported when it has
\* something, the write end when it can take bytes (or has an error).
PumpSelect ==
    /\ ppc = "p_select"
    /\ IF (rlist /\ read_from = "closed") \/ ((wlist \/ pipe_eof) /\ write_to = "closed")
       THEN PumpRaise("ValueError") /\ UNCHANGED <<readable, writeable>>
       ELSE IF pipe_eof /\ write_to = "hup"
       THEN PumpRaise("BrokenPipeError") /\ UNCHANGED <<readable, writeable>>
       ELSE /\ readable' \in (IF rlist THEN BOOLEAN ELSE {FALSE})
            /\ writeable' = (wlist /\ write_to \in {"ok", "hup"})
            /\ ppc' = "p_read"
            /\ pump_exc' = pump_exc
    /\ UNCHANGED <<source, rdseq, wrseq, buf, read_from, write_to, pipe_eof,
                   rlist, wlist, rend>>
    /\ UNCHANGED <<pumpOthers, stop_event, future>>

\* del buf[:sent]
\* A faulty variant that drops the whole chunk after a partial write.
after_write_drop_chunk(b, sent) ==
    IF sent > 0 THEN SubSeq(b, Min(Len(b), BufSize) + 1, Len(b)) ELSE b

after_write(b, sent) == SubSeq(b, sent + 1, Len(b))

\* The stop event is looked at only while read_from is set.
stop_seen(rf, ev) == rf # "None" /\ ev = "set"

\* `if read_from:` -- a set stop event or a closed write end counts as end
\* of input; a readable read end is read (some bytes, nothing on
\* BlockingIOError / InterruptedError, end of input on b'' or EIO, another
\* OSError is raised); end of input closes and drops the read end.
PumpRead ==
    /\ ppc = "p_read"
    /\ IF read_from = "None"
       THEN /\ ppc' = "p_write"
            /\ UNCHANGED <<source, rdseq, buf, read_from, rend, pump_exc>>
       ELSE IF stop_seen(read_from, stop_event)
       THEN /\ read_from' = "None"
            /\ rend' = "stop"
            /\ ppc' = "p_write"
            /\ UNCHANGED <<source, rdseq, buf, pump_exc>>
       ELSE IF write_to = "closed"
       THEN /\ read_from' = "None"
            /\ rend' = "wclosed"
            /\ ppc' = "p_write"
            /\ UNCHANGED <<source, rdseq, buf, pump_exc>>
       ELSE IF ~readable
       THEN /\ ppc' = "p_write"
            /\ UNCHANGED <<source, rdseq, buf, read_from, rend, pump_exc>>
       ELSE IF read_from = "closed"
       THEN /\ PumpRaise("ValueError")
            /\ UNCHANGED <<source, rdseq, buf, read_from, rend>>
       ELSE \/ \E k \in 1..Min(BufSize, Len(source)) :
                 /\ buf' = buf \o SubSeq(source, 1, k)
                 /\ rdseq' = rdseq \o SubSeq(source, 1, k)
                 /\ source' = SubSeq(source, k + 1, Len(source))
                 /\ ppc' = "p_write"
                 /\ UNCHANGED <<read_from, rend, pump_exc>>
            \/ /\ ppc' = "p_write"
               /\ UNCHANGED <<source, rdseq, buf, read_from, rend, pump_exc>>
            \/ /\ source = <<>>
               /\ read_from' = "None"
               /\ rend' = "eof"
               /\ ppc' = "p_write"
               /\ UNCHANGED <<source, rdseq, buf, pump_exc>>
            \/ /\ PumpRaise("OSError")
               /\ UNCHANGED <<source, rdseq, buf, read_from, rend>>
    /\ UNCHANGED <<wrseq, write_to, pipe_eof, rlist, wlist, readable, writeable>>
    /\ UNCHANGED <<pumpOthers, stop_event, future>>

\* The zero-timeout select when there is something to write and the write
\* end was not selected on, then `sent = write_to.write(buf[:bufsize])`:
\* all or part of the chunk is taken (sent is 0 on InterruptedError, None or
\* BlockingIOError without progress), and `del buf[:sent]`.
PumpWrite ==
    /\ ppc = "p_write"
    /\ LET probe == buf # <<>> /\ ~wlist /\ ~writeable IN
       IF probe /\ write_to = "closed"
       THEN PumpRaise("ValueError") /\ UNCHANGED <<buf, wrseq, writeable>>
       ELSE \E w \in {IF probe THEN write_to \in {"ok", "hup"} ELSE writeable} :
              /\ writeable' = w
              /\ IF ~w
                 THEN ppc' = "p_top" /\ UNCHANGED <<buf, wrseq, pump_exc>>
                 ELSE IF write_to = "closed"
                 THEN PumpRaise("ValueError") /\ UNCHANGED <<buf, wrseq>>
                 ELSE IF write_to = "hup"
                 THEN PumpRaise("BrokenPipeError") /\ UNCHANGED <<buf, wrseq>>
                 ELSE \E sent \in 0..(IF write_to = "full" THEN 0 ELSE Min(BufSize, Len(buf))) :
                        /\ wrseq' = wrseq \o SubSeq(buf, 1, sent)
                        /\ buf' = after_write(buf, sent)
                        /\ ppc' = "p_top"
                        /\ pump_exc' = pump_exc
    /\ UNCHANGED <<source, rdseq, read_from, write_to, pipe_eof, rlist, wlist,
                   readable, rend>>
    /\ UNCHANGED <<pumpOthers, stop_event, future>>

\* `if future and not future.cancelled()`: set_exception(exc) if exc is
\* set, set_result(True) otherwise.
future_after(fut, e) ==
    IF fut = "running"
    THEN IF e # "none" THEN "exception" ELSE "result"
    ELSE fut

\* finally: buf.clear(), both ends closed, the future completed; the thread
\* ends.
PumpFinally ==
    /\ ppc = "p_finally"
    /\ buf' = <<>>
    /\ read_from' = "None"
    /\ write_to' = "closed"
    /\ future' = future_after(future, pump_exc)
    /\ ppc' = "p_done"
    /\ UNCHANGED <<source, rdseq, wrseq, pipe_eof, rlist, wlist, readable,
                   writeable, pump_exc, rend>>
    /\ UNCHANGED <<pumpOthers, stop_event>>

PumpRunning == caller = "pump" /\ ppc \notin {"p_done", "p_off", "p_raised"}

\* Container._close sets the stop event.
StopSet ==
    /\ PumpRunning
    /\ stop_event = "clear"
    /\ stop_event' = "set"
    /\ UNCHANGED <<source, rdseq, wrseq, buf, read_from, write_to, pipe_eof,
                   rlist, wlist, readable, writeable, pump_exc, rend, ppc>>
    /\ UNCHANGED <<pumpOthers, future>>

\* Someone else closes the file object the pump reads from.
ReadEndClosed ==
    /\ PumpRunning
    /\ read_from = "open"
    /\ read_from' = "closed"
    /\ UNCHANGED <<source, rdseq, wrseq, buf, write_to, pipe_eof, rlist, wlist,
                   readable, writeable, pump_exc, rend, ppc, stop_event>>
    /\ UNCHANGED <<pumpOthers, future>>

\* The write end: someone else closes the file object; the peer goes away;
\* the peer, which was taking nothing, takes what was queued and the end
\* is writable from then on.
WriteEndChange(to) ==
    /\ PumpRunning
    /\ \/ to = "closed" /\ write_to # "closed"
       \/ to = "hup" /\ write_to \in {"ok", "full"}
       \/ to = "ok" /\ write_to = "full"
    /\ write_to' = to
    /\ UNCHANGED <<source, rdseq, wrseq, buf, read_from, pipe_eof, rlist, wlist,
                   readable, writeable, pump_exc, rend, ppc, stop_event>>
    /\ UNCHANGED <<pumpOthers, future>>

PumpThread == PumpBegin \/ PumpTop \/ PumpSelect \/ PumpRead \/ PumpWrite \/ PumpFinally

PumpNext ==
    \/ PumpThread
    \/ StopSet
    \/ ReadEndClosed
    \/ \E to \in {"closed", "hup", "ok"} : WriteEndChange(to)

\* ------------------------------------- unpack_image, then update_spec_file
\* The bundle directory over any sequence of unpack_image and
\* update_spec_file calls (caller = "bundle").  args is the call last made,
\* res how it ended, unpacked what `umoci raw config` last wrote to
\* config.json.
Images == {"v1", "v2"}

\* The runtime spec the unpacker generates for an image.
Generated(img) == Unpacked \o <<img>>

InitBundle ==
    /\ caller = "bundle"
    /\ pc = "idle"
    /\ remove = FALSE
    /\ InitHandles
    /\ InitNoIo
    /\ InitNoPump
    /\ InitNoTty
    /\ InitResources
    /\ InitNoOrphan
    /\ lockfile = [c \in Containers |-> NoFile]
    /\ pidfile = [c \in Containers |-> NoFile]
    /\ lpc = [s \in Sups |-> "off"]
    /\ lread = [s \in Sups |-> NoFile]
    /\ unpacked = Unpacked
    /\ args = [op |-> "none"]
    /\ res = "none"
    /\ mdirs = {}

\* The rootfs is unpacked unless one is found and refresh_rootfs is off.
do_unpack(found, refresh_rootfs) == ~(found /\ ~refresh_rootfs)

\* Where unpack_image can fail: "unpack", the unpack command returns non-zero;
\* "config", the config command returns non-zero having written nothing;
\* "late", the config command has rewritten config.json and the call fails
\* all the same: the command returns non-zero after writing, or echoing its
\* output raises.
UnpackFaults(du, refresh_config) ==
    {"none"} \cup (IF du THEN {"unpack"} ELSE {})
             \cup (IF refresh_config THEN {"config", "late"} ELSE {})

\* The unpacker has rewritten config.json.
ConfigWritten(refresh_config, fault) == refresh_config /\ fault \in {"none", "late"}

\* The files unpack_image leaves: config.orig.json is unlinked only after the
\* config command has been checked.
unpack_image(files, img, refresh_config, fault) ==
    IF ~ConfigWritten(refresh_config, fault) THEN files
    ELSE IF fault = "late" THEN [files EXCEPT !.json = Generated(img)]
    ELSE [json |-> Generated(img), orig |-> NoSpec]

UnpackImage(img, found, refresh_rootfs, refresh_config, fault) ==
    /\ caller = "bundle"
    /\ fault \in UnpackFaults(do_unpack(found, refresh_rootfs), refresh_config)
    /\ args' = [op |-> "unpack_image", image |-> img, found |-> found,
                refresh_rootfs |-> refresh_rootfs, refresh_config |-> refresh_config]
    /\ res' = IF fault = "none" THEN "returned" ELSE "raised"
    /\ cfg' = [cfg EXCEPT ![Bundle] = unpack_image(@, img, refresh_config, fault)]
    /\ unpacked' = IF ConfigWritten(refresh_config, fault) THEN Generated(img) ELSE unpacked
    /\ UNCHANGED <<pc, callVars, execVars, loopVars, excVars, logVars, conVars,
                   procVars, lockfile, pidfile, rundir, lockVars, ioVars, pumpVars,
                   ttyVars, resVars, mdirs>>

\* update_spec_file up to the backup: a later step (an unknown mount type, a
\* missing bind source) raises before config.json is written.
update_spec_file_backup_only(files) ==
    [files EXCEPT !.orig = IF files.orig = NoSpec THEN files.json ELSE files.orig]

UpdateSpecFile(fails) ==
    /\ caller = "bundle"
    /\ args' = [op |-> "update_spec_file"]
    /\ res' = IF fails THEN "raised" ELSE "returned"
    /\ cfg' = [cfg EXCEPT ![Bundle] = IF fails THEN update_spec_file_backup_only(@)
                                      ELSE update_spec_file(@)]
    /\ UNCHANGED <<pc, callVars, execVars, loopVars, excVars, logVars, conVars,
                   procVars, lockfile, pidfile, rundir, lockVars, ioVars, pumpVars,
                   ttyVars, resVars, unpacked, mdirs>>

BundleNext ==
    \/ \E img \in Images, found, refresh_rootfs, refresh_config \in BOOLEAN,
          fault \in {"none", "unpack", "config", "late"} :
          UnpackImage(img, found, refresh_rootfs, refresh_config, fault)
    \/ \E fails \in BOOLEAN : UpdateSpecFile(fails)

SpecBundle == InitBundle /\ [][BundleNext]_vars

\* ----------------------------------------------------- _update_capabilities
\* The function applied to every capability dict, add list and drop list
\* within the bounds (caller = "caps"): args holds the arguments, res the
\* result once the function has returned.
MaxCapLen == 2
Caps == {"CAP_CHOWN", "CAP_KILL", "CAP_NET_RAW"}
Kinds == {"bounding", "effective"}
CapLists == UNION {[1..n -> Caps] : n \in 0..MaxCapLen}

\* What every scenario of a single function call shares.
InitCall ==
    /\ pc = "f_call"
    /\ remove = FALSE
    /\ InitHandles
    /\ InitNoIo
    /\ InitNoPump
    /\ InitNoTty
    /\ InitResources
    /\ InitNoOrphan
    /\ lockfile = [c \in Containers |-> NoFile]
    /\ pidfile = [c \in Containers |-> NoFile]
    /\ lpc = [s \in Sups |-> "off"]
    /\ lread = [s \in Sups |-> NoFile]
    /\ unpacked = NoSpec
    /\ res = "none"
    /\ mdirs = {}

InitCaps ==
    /\ caller = "caps"
    /\ InitCall
    /\ \E caps \in [Kinds -> CapLists], add, drop \in CapLists :
          args = [caps |-> caps, add |-> add, drop |-> drop]

\* A variant in which a dropped capability is not added back.
update_capabilities_drop_wins(caps, caps_config) ==
    [kind \in DOMAIN caps |->
        LET dropped(c) == c \in Elems(caps_config.drop)
            new_list == SelectSeq(caps[kind], LAMBDA c : ~dropped(c))
            new_set == Elems(new_list)
        IN new_list \o SelectSeq(caps_config.add,
                                 LAMBDA c : c \notin new_set /\ ~dropped(c))]

\* new_set is built once, from the retained originals, and is not updated
\* while the add list is appended.
update_capabilities(caps, caps_config) ==
    [kind \in DOMAIN caps |->
        LET new_list == SelectSeq(caps[kind], LAMBDA c : c \notin Elems(caps_config.drop))
            new_set == Elems(new_list)
        IN new_list \o SelectSeq(caps_config.add, LAMBDA c : c \notin new_set)]

\* What the remaining scenario variables do during a single function call.
callOthers == <<callVars, execVars, loopVars, excVars, logVars, conVars, procVars,
                fileVars, lockVars, ioVars, pumpVars, ttyVars, resVars, unpacked, args,
                mdirs>>

UpdateCapabilities ==
    /\ caller = "caps"
    /\ pc = "f_call"
    /\ res' = update_capabilities(args.caps, [add |-> args.add, drop |-> args.drop])
    /\ pc' = "f_done"
    /\ UNCHANGED callOthers

SpecCaps == InitCaps /\ [][UpdateCapabilities]_vars

\* ------------------------------------------------------ _update_environment
\* The function applied to every original env list, env.vars list, env.host
\* list and host environment within the bounds (caller = "env").  A string is
\* the sequence of its characters.
MaxEnvLen == 2
Names == {<<"A">>, <<"B">>}
Eq == <<"=">>
\* os.environ.get(name) is None.
NoValue == <<"None">>

OrigEntries == {<<"A">> \o Eq \o <<"o">>, <<"B">> \o Eq \o <<"o">>, <<"B">>}
VarEntries == Names \cup {n \o Eq \o v : n \in Names, v \in {<<"v">>, <<"v", "=", "w">>}}
HostEntries == Names \cup {n \o Eq \o <<"d">> : n \in Names}
HostValues == {NoValue, <<>>, <<"h">>}
ListsOf(S) == UNION {[1..n -> S] : n \in 0..MaxEnvLen}

InitEnv ==
    /\ caller = "env"
    /\ InitCall
    /\ \E env \in ListsOf(OrigEntries), vs \in ListsOf(VarEntries),
          host \in ListsOf(HostEntries), environ \in [Names -> HostValues] :
          args = [env |-> env, vars |-> vs, host |-> host, environ |-> environ]

\* str.partition('='): the text before the first '=', whether there is one,
\* and the text after it.
FirstEq(s) ==
    IF \E i \in 1..Len(s) : s[i] = "="
    THEN CHOOSE i \in 1..Len(s) : s[i] = "=" /\ \A j \in 1..(i - 1) : s[j] # "="
    ELSE 0
partition(s) ==
    IF FirstEq(s) = 0
    THEN [name |-> s, sep |-> FALSE, value |-> <<>>]
    ELSE [name |-> SubSeq(s, 1, FirstEq(s) - 1), sep |-> TRUE,
          value |-> SubSeq(s, FirstEq(s) + 1, Len(s))]

\* A dict in insertion order, as a sequence of <<key, value>>:
\* d[key] = value and d.pop(key, None).
DictHas(d, k) == \E i \in 1..Len(d) : d[i][1] = k
DictSet(d, k, v) ==
    IF DictHas(d, k)
    THEN [i \in 1..Len(d) |-> IF d[i][1] = k THEN <<k, v>> ELSE d[i]]
    ELSE Append(d, <<k, v>>)
DictPop(d, k) == SelectSeq(d, LAMBDA e : e[1] # k)

os_environ_get(environ, name) ==
    IF name \in DOMAIN environ THEN environ[name] ELSE NoValue

RECURSIVE FromEnv(_, _)
FromEnv(d, env) ==
    IF env = <<>> THEN d
    ELSE FromEnv(DictSet(d, partition(Head(env)).name, partition(Head(env)).value),
                 Tail(env))

RECURSIVE ApplyVars(_, _)
ApplyVars(d, vs) ==
    IF vs = <<>> THEN d
    ELSE LET p == partition(Head(vs))
         IN ApplyVars(IF p.sep THEN DictSet(d, p.name, p.value) ELSE DictPop(d, p.name),
                      Tail(vs))

RECURSIVE ApplyHost(_, _, _)
ApplyHost(d, host, environ) ==
    IF host = <<>> THEN d
    ELSE LET p == partition(Head(host))
             hostval == os_environ_get(environ, p.name)
         IN ApplyHost(IF hostval # NoValue THEN DictSet(d, p.name, hostval)
                      ELSE IF p.sep THEN DictSet(d, p.name, p.value)
                      ELSE DictPop(d, p.name),
                      Tail(host), environ)

Format(d) == [i \in 1..Len(d) |-> d[i][1] \o Eq \o d[i][2]]

\* A variant that applies env.vars after env.host.
update_environment_vars_last(env, env_config, environ) ==
    Format(ApplyVars(ApplyHost(FromEnv(<<>>, env), env_config.host, environ),
                     env_config.vars))

update_environment(env, env_config, environ) ==
    Format(ApplyHost(ApplyVars(FromEnv(<<>>, env), env_config.vars),
                     env_config.host, environ))

UpdateEnvironment ==
    /\ caller = "env"
    /\ pc = "f_call"
    /\ res' = update_environment(args.env, [vars |-> args.vars, host |-> args.host],
                                 args.environ)
    /\ pc' = "f_done"
    /\ UNCHANGED callOthers

SpecEnv == InitEnv /\ [][UpdateEnvironment]_vars

\* ----------------------------------------- _update_id_maps, update_spec_file
\* The id-map rewrite at the end of update_spec_file, for every mapping list,
\* target container id and owner id within the bounds (caller = "idmaps").
\* args.id_maps is the list object the spec holds, args.given its value when
\* the call was made; res is the list stored back into the spec.
MaxMaps == 2
ContainerIds == {0, 1000}
HostIds == {0, 100000}
Sizes == {1, 65536}
TargetIds == {0, 1000, 33}
OwnerIds == {None, 1000, 2000}
IdMaps == [containerID : ContainerIds, hostID : HostIds, size : Sizes]
IdMapLists == UNION {[1..n -> IdMaps] : n \in 0..MaxMaps}

InitIdMaps ==
    /\ caller = "idmaps"
    /\ InitCall
    /\ \E maps \in IdMapLists, container_id \in TargetIds, host_id \in OwnerIds :
          args = [id_maps |-> maps, given |-> maps,
                  container_id |-> container_id, host_id |-> host_id]

\* A variant that sets hostID on the entry itself instead of on a copy.
update_id_maps_in_place(id_maps, container_id, host_id) ==
    LET new == [i \in 1..Len(id_maps) |->
                   IF id_maps[i].containerID = container_id
                   THEN [id_maps[i] EXCEPT !.hostID = host_id] ELSE id_maps[i]]
    IN [new_maps |-> new, id_maps |-> new]

\* The new list, and the input list as the call leaves it: an entry for the
\* target is copied and the copy gets the owner id, any other entry is
\* appended as it is; nothing is raised when no entry matches.
update_id_maps(id_maps, container_id, host_id) ==
    [new_maps |-> [i \in 1..Len(id_maps) |->
                      IF id_maps[i].containerID = container_id
                      THEN [id_maps[i] EXCEPT !.hostID = host_id] ELSE id_maps[i]],
     id_maps |-> id_maps]

\* update_spec_file from the id-map rewrite to the write of config.json.
UpdateSpecIdMaps ==
    /\ caller = "idmaps"
    /\ pc = "f_call"
    /\ LET r == update_id_maps(args.id_maps, args.container_id, args.host_id) IN
       IF args.host_id # None
       THEN /\ res' = r.new_maps
            /\ args' = [args EXCEPT !.id_maps = r.id_maps]
       ELSE /\ res' = args.id_maps
            /\ args' = args
    /\ cfg' = [cfg EXCEPT ![Bundle] = update_spec_file(@)]
    /\ pc' = "f_done"
    /\ UNCHANGED <<callVars, execVars, loopVars, excVars, logVars, conVars, procVars,
                   lockfile, pidfile, rundir, lockVars, ioVars, pumpVars, ttyVars,
                   resVars, unpacked, mdirs>>

SpecIdMaps == InitIdMaps /\ [][UpdateSpecIdMaps]_vars

\* ------------------------------- update_spec_file: mounts, create_container
\* create_container from update_spec_file on (caller = "mounts"), for every
\* list of volume mounts and runtime-dir mounts within the bounds.  A mount
\* is named by its kind: a bind mount with an absolute source that exists,
\* with an absolute source that is absent, or with a relative source; a
\* shared, private or runtime volume; a mount of an unknown type.  args
\* holds the mounts and whether a runtime dir is given, res how
\* update_spec_file ended, mdirs the volume directories made.
MaxMounts == 2
BindKinds == {"bind", "bind_absent", "bind_relative"}
MountKinds == BindKinds \cup {"shared", "private", "runtime", "unknown"}
MountLists == UNION {[1..n -> MountKinds] : n \in 0..MaxMounts}
RundirMountLists == UNION {[1..n -> MountKinds] : n \in 0..1}

InitMounts ==
    /\ caller = "mounts"
    /\ InitCall
    /\ \E mounts \in MountLists, has_rundir \in BOOLEAN, rmounts \in RundirMountLists :
          /\ has_rundir \/ rmounts = <<>>
          /\ args = [mounts |-> mounts, rundir |-> has_rundir, rmounts |-> rmounts,
                     json |-> cfg[Bundle].json]

\* _mount_source_path: TRUE when it raises ValueError.
mount_source_path_raises(kind, has_rundir) ==
    \/ kind = "bind_relative"
    \/ kind = "runtime" /\ ~has_rundir
    \/ kind \notin BindKinds \cup {"shared", "private", "runtime"}

\* _update_mounts: _mount_spec on every volume mount, then on every mount
\* of the runtime dir if one is given; TRUE when one of them raises.
update_mounts_raises(mounts, rmounts, has_rundir) ==
    \/ \E i \in 1..Len(mounts) : mount_source_path_raises(mounts[i], has_rundir)
    \/ has_rundir /\ \E i \in 1..Len(rmounts) : mount_source_path_raises(rmounts[i], has_rundir)

\* The first volume mount at which _ensure_mounts raises (a source path that
\* cannot be made, a bind source that does not exist), or Len + 1.
EnsureStops(mounts, has_rundir) ==
    LET bad(i) == \/ mount_source_path_raises(mounts[i], has_rundir)
                  \/ mounts[i] = "bind_absent"
    IN IF \E i \in 1..Len(mounts) : bad(i)
       THEN CHOOSE i \in 1..Len(mounts) : bad(i) /\ \A j \in 1..(i - 1) : ~bad(j)
       ELSE Len(mounts) + 1

VolumeDirs(mounts, upto) ==
    {<<mounts[i], i>> : i \in {j \in 1..upto : mounts[j] \notin BindKinds}}

\* A faulty variant of _ensure_mounts that makes each volume directory as it
\* comes to it.
ensure_mounts_as_it_goes(mounts, has_rundir, dirs) ==
    LET stop == EnsureStops(mounts, has_rundir) IN
    [raises |-> stop <= Len(mounts),
     dirs |-> dirs \cup VolumeDirs(mounts, stop - 1)]

\* _ensure_mounts: the loop over the volume mounts checks the bind sources
\* and collects the volume directories; ensure_dirs makes them after the
\* loop.
ensure_mounts(mounts, has_rundir, dirs) ==
    LET stop == EnsureStops(mounts, has_rundir) IN
    [raises |-> stop <= Len(mounts),
     dirs |-> IF stop <= Len(mounts) THEN dirs
              ELSE dirs \cup VolumeDirs(mounts, Len(mounts))]

\* update_spec_file: the backup of the pristine spec, _update_mounts,
\* _ensure_mounts, the write of config.json; create_container goes on to the
\* runtime's create only when it returns.
UpdateSpecMounts ==
    /\ caller = "mounts"
    /\ pc = "f_call"
    /\ LET um == update_mounts_raises(args.mounts, args.rmounts, args.rundir)
           em == ensure_mounts(args.mounts, args.rundir, mdirs)
       IN IF um \/ em.raises
          THEN /\ cfg' = [cfg EXCEPT ![Bundle] = update_spec_file_backup_only(@)]
               /\ mdirs' = IF um THEN mdirs ELSE em.dirs
               /\ exc' = PyError("ValueError", "mount")
               /\ res' = "raised"
               /\ pc' = "f_done"
          ELSE /\ cfg' = [cfg EXCEPT ![Bundle] = update_spec_file(@)]
               /\ mdirs' = em.dirs
               /\ exc' = exc
               /\ res' = "returned"
               /\ pc' = "f_create"
    /\ UNCHANGED <<callVars, execVars, loopVars, escaped, unwinding, logVars,
                   conVars, procVars, lockfile, pidfile, rundir, lockVars, ioVars,
                   pumpVars, ttyVars, resVars, unpacked, args>>

\* The runtime's create is launched.
CreateAfterSpec ==
    /\ caller = "mounts"
    /\ pc = "f_create"
    /\ cmdlog' = Append(cmdlog, "create")
    /\ pc' = "f_done"
    /\ UNCHANGED <<callVars, execVars, loopVars, excVars, killlog, conVars,
                   procVars, fileVars, lockVars, ioVars, pumpVars, moreVars>>

SpecMounts == InitMounts /\ [][UpdateSpecMounts \/ CreateAfterSpec]_vars

\* ------------------------------------------------------------ specifications
MainThread ==
    \/ RunEntry \/ RunSetup \/ RunResize
    \/ CreatePrecheck \/ CreateLockCheck \/ CreateLockWrite
    \/ CreateRun \/ CreateState
    \/ StartRun \/ StartState
    \/ LoopEnter \/ LoopRecv \/ LoopHandle \/ LoopCheck
    \/ RunGetReturncode
    \/ RemoveState \/ RemoveDelete
    \/ RunExcept
    \/ CloseBegin \/ CloseContainer \/ CloseEnd
    \/ TeardownSubreaper \/ TeardownSignals \/ TeardownTty \/ TeardownStdio

Environment ==
    \/ \E c \in Containers : \E code \in ExitCodes : ProcExit(c, code)
    \/ \E c \in Containers : ProcSignalled(c)
    \/ \E c \in Containers : ProcHandles(c)
    \/ \E sig \in ExtSignals : SigArrive(sig)
    \/ SigAbort

ApiCalls ==
    \/ \E c \in ApiContainers : ApiCreate(c)
    \/ \E c \in ApiContainers : ApiStart(c)
    \/ \E c \in ApiContainers : ApiRemove(c)
    \/ \E c \in ApiContainers : ApiGetState(c)
    \/ ApiReap
    \/ \E sig \in FORWARD_SIGNALS : ApiSendSignal(sig)
    \/ ApiGetReturncode
    \/ \E c \in ApiContainers : ApiWaitNoHang(c)
    \/ \E c \in ApiContainers : ApiClose(c)
    \/ ApiCloseDone
    \/ ApiExecClose
    \/ \E target \in BOOLEAN : ApiSetSubreaper(target)

RunNext == MainThread \/ Environment \/ RunAgain \/ CreateAfterRun

Next == RunNext \/ ApiCalls

Spec == Init /\ [][Next]_vars

\* run_until_complete alone, with the main thread always taking its next
\* step when it has one; the environment owes nothing.
FairSpec == InitRun /\ [][RunNext]_vars /\ WF_vars(MainThread)

LockNext ==
    \E s \in Sups :
        \/ LockRead(s) \/ LockDecide(s) \/ LockUnlink(s) \/ LockWrite(s)
        \/ LockSpec(s) \/ LockCreate(s) \/ LockRelease(s)

SpecLock == InitLock /\ [][LockNext]_vars

CloseNext ==
    \/ \E child \in BOOLEAN : HandleStarted(child)
    \/ HClose \/ HWait \/ HWaitRaises \/ HStop
    \/ HJoin \/ HJoinDone \/ HFd \/ HFdsDone \/ HExit
    \/ \E t \in 1..MaxThreads : ThreadFinish(t)
    \/ \E code \in ExitCodes : caller = "close" /\ ProcExit(Handle, code)

SpecClose == InitClose /\ [][CloseNext]_vars

SpecPump == InitPump /\ [][PumpNext]_vars

\* The pump thread keeps being scheduled, and select returns after its
\* timeout at the latest; a write end that is writable again and again
\* takes at least a byte in the end. The endpoints' peers owe nothing.
FairSpecPump ==
    /\ SpecPump
    /\ WF_vars(PumpThread)
    /\ SF_vars(PumpWrite /\ wrseq' # wrseq)

\* run_until_complete with a grandchild that is reparented to the supervisor.
ReaperNext == RunNext \/ OrphanAdopt \/ OrphanExit

SpecReaper == InitRun /\ [][ReaperNext]_vars

\* run_until_complete on a host terminal.
SpecTty == InitRunTty /\ [][RunNext]_vars

\* ================================================================ properties
\* The pid a lockfile names (0: no lockfile, or an empty one).
LockOwner(c) ==
    IF lockfile[c] = NoFile \/ lockfile[c] = EmptyFile THEN 0 ELSE StrToInt(lockfile[c])
LockHeldByOther(c) ==
    LockOwner(c) # 0 /\ LockOwner(c) # SelfPid /\ PidAlive(LockOwner(c))
LockStale(c) ==
    LockOwner(c) # 0 /\ LockOwner(c) # SelfPid /\ ~PidAlive(LockOwner(c))

\* C1 -- Lockfile mutual exclusion: of two live supervisors that call
\* create_container on the same runtime dir, at most one is ever past the
\* lockfile check (rewriting config.json, running `create`, holding the
\* container).  Stated over SpecLock; it does not hold: both supervisors can
\* read the lockfile before either has written it.
C1_LockExclusion ==
    ~(lpc[SelfPid] \in PastLock /\ lpc[OtherPid] \in PastLock)

C3_StaleLockRecovery ==
    [][/\ (CreateLockCheck /\ LockStale(cur)) =>
              (lockfile'[cur] = NoFile /\ pc' = "c_write" /\ exc' = exc)
       /\ (CreateLockCheck /\ LockOwner(cur) \in {0, SelfPid}) =>
              (lockfile' = lockfile /\ pc' = "c_write" /\ exc' = exc)
       /\ CreateLockWrite =>
              /\ lockfile'[cur] = IntToStr(SelfPid)
              /\ cfg'[cur] = [json |-> Overlay(Unpacked), orig |-> Unpacked]
              /\ pc' = "c_create"
              /\ exc' = exc
       /\ CreateRun => cmdlog' = <<"create">>]_vars

\* The stale lockfile has been read and removed; the write is next.
C3_Witness ==
    /\ pc = "c_write"
    /\ lread[SelfPid] = IntToStr(StalePid)
    /\ lockfile["c1"] = NoFile

\* C4 -- Status lifecycle: a handle's status only ever changes one stage
\* forward along new, created, running, stopped, removed, and never takes a
\* value outside these five.  It does not hold: remove_container stores
\* "removed" over "running", its state poll not updating the handle.
LegalStatusSteps ==
    {<<"new", "created">>, <<"created", "running">>, <<"running", "stopped">>,
     <<"stopped", "removed">>}

C4_StatusLifecycle ==
    [][\A c \in Containers :
          /\ status'[c] \in Statuses
          /\ status'[c] = status[c] \/ <<status[c], status'[c]>> \in LegalStatusSteps]_vars

\* C5 -- A container's returncode is written at most once: no step of the
\* reaper, of wait() or of close() changes a returncode that is not None.
C5_ReturncodeWrittenOnce ==
    [][\A c \in Containers : crc[c] # None => crc'[c] = crc[c]]_vars

\* The reaper has set the returncode and close() has come after it.
C5_Witness ==
    /\ crc["c1"] = 3
    /\ proc["c1"] = "gone"
    /\ isChild["c1"]
    /\ cclosing["c1"] = "False"

\* C6 -- Short-lived container: when the container's process has exited with
\* code 0, no runtime subcommand has failed and no SIGABRT has come,
\* run_until_complete(remove=True) returns 0 and leaves neither lockfile nor
\* pidfile.  It does not hold: start_container raises when the process has
\* exited before its state poll.
C6_ShortLivedRun ==
    (/\ caller = "run"
     /\ remove
     /\ pc = "r_returned"
     /\ proc["c1"] \in {"zombie", "gone"}
     /\ wstatus["c1"] = ExitedStatus(0)
     /\ exc.msg \notin {"runc", "signal"})
    => (/\ returncode = 0
        /\ lockfile["c1"] = NoFile
        /\ pidfile["c1"] = NoFile)

\* C7 -- Teardown terminates: once run_until_complete has come to its
\* finally clause it eventually returns or lets an exception go on, whatever
\* the container's process does.  Stated over FairSpec; it does not hold:
\* close() waits on a registered container that is still alive.
C7_TeardownTerminates == (pc = "t_close") ~> (pc \in Finished)

\* C8 -- Exception mapping: an exception raised inside the try block never
\* leaves run_until_complete, and when one was raised the value returned is
\* its code for a RuncError and 1 for anything else, whatever had been
\* computed from the containers.
C8_ExceptionMapping ==
    /\ (pc = "r_returned" /\ exc.kind = "RuncError") => returncode = exc.code
    /\ (pc = "r_returned" /\ exc.kind \notin {"none", "RuncError"}) => returncode = 1
    /\ pc = "r_propagated" => escaped \in {"entry", "except", "teardown"}

\* `delete` failed with code 2 after the return code 3 had been computed
\* from the container.
C8_Witness ==
    /\ pc = "r_returned"
    /\ exc = RuncError("runc", 2)
    /\ cmdlog = <<"state", "delete">>
    /\ crc["c1"] = 3
    /\ returncode = 2

\* C9 -- Return code: _get_returncode gives None for an empty registry, else
\* the returncode of the first registered container, in insertion order,
\* whose returncode is neither None nor 0, else 0; from then on a run without
\* exception keeps that value, and returns it though remove_container has
\* emptied the registry.
NonzeroAt == {i \in 1..Len(containers) : crc[containers[i]] \notin {None, 0}}

ExpectedReturncode ==
    IF Len(containers) = 0 THEN None
    ELSE IF NonzeroAt = {} THEN 0
    ELSE crc[containers[CHOOSE i \in NonzeroAt : \A j \in NonzeroAt : i <= j]]

AfterGetReturncode ==
    {"rm_state", "rm_delete", "t_close", "t_con", "t_subreaper", "t_signals",
     "t_tty", "t_stdio"}

C9_ReturnCode ==
    /\ [][/\ (RunGetReturncode \/ ApiGetReturncode) => returncode' = ExpectedReturncode
          /\ (caller = "run" /\ pc \in AfterGetReturncode /\ exc' = NoExc)
                => returncode' = returncode]_vars
    /\ [](caller = "run" /\ pc = "r_returned" /\ exc = NoExc
            => returncode = crc["c1"] /\ returncode # None)

\* The run has returned 3, computed from the container before its removal.
C9_Witness ==
    /\ caller = "run"
    /\ pc = "r_returned"
    /\ exc = NoExc
    /\ containers = <<>>
    /\ status["c1"] = "removed"
    /\ returncode = 3

\* C10 -- Signal forwarding: for a byte INT, HUP, TERM or QUIT the signal
\* loop makes exactly one kill per registered container without returncode,
\* with that signal, and no other kill; any other byte makes no kill; a
\* container terminated by signal N gets returncode -N, and a run that
\* returns without exception returns -N.
ExpectedPids == {PidOf(c) : c \in {d \in Containers : InRegistry(d) /\ crc[d] = None}}

ExactlyForwarded(log, sig) ==
    /\ Len(log) = Cardinality(ExpectedPids)
    /\ {log[i][1] : i \in 1..Len(log)} = ExpectedPids
    /\ \A i \in 1..Len(log) : log[i][2] = sig

C10_SignalForwarding ==
    /\ [][/\ (LoopHandle /\ Head(batch) \in FORWARD_SIGNALS)
                => ExactlyForwarded(killlog', Head(batch))
          /\ \A sig \in FORWARD_SIGNALS : (caller = "registry" /\ ApiSendSignal(sig))
                => ExactlyForwarded(killlog', sig)
          /\ (LoopHandle /\ Head(batch) \notin FORWARD_SIGNALS)
                => (killlog' = killlog /\ pendsig' = pendsig)]_vars
    /\ [](\A c \in Containers :
            (caller \in {"run", "registry"} /\ crc[c] # None /\ WIFSIGNALED(wstatus[c]))
               => crc[c] = 0 - WTERMSIG(wstatus[c]))
    /\ [](caller = "run" /\ pc = "r_returned" /\ exc = NoExc
             /\ WIFSIGNALED(wstatus["c1"])
            => returncode = 0 - WTERMSIG(wstatus["c1"]))

\* SIGTERM was forwarded, the container died of it, the run returned -15.
C10_Witness ==
    /\ caller = "run"
    /\ pc = "r_returned"
    /\ exc = NoExc
    /\ killlog = <<<<PidOf("c1"), SIGTERM>>>>
    /\ wstatus["c1"] = SignaledStatus(SIGTERM)
    /\ crc["c1"] = 0 - SIGTERM
    /\ returncode = 0 - SIGTERM

\* C11 -- No lost signals: between _setup_signals and _restore_signals the
\* self-pipe only grows at its end, except that a recv moves all of it, in
\* order, to the loop, which was out of bytes; the loop handles the bytes it
\* holds first to last, a SIGCHLD byte reaping every dead child; while the
\* loop runs a byte in the pipe is eventually received, and when every
\* registered container is dead -- also since before the loop began -- the
\* loop comes to its end.
IsPrefix(a, b) == Len(a) <= Len(b) /\ SubSeq(b, 1, Len(a)) = a

InLoop == pc \in LoopLabels \cup {"r_loop"}

AllDead == \A i \in 1..Len(containers) : proc[containers[i]] \in {"zombie", "gone"}

C12_CreateWhileClosing ==
    [][(CreatePrecheck /\ closing) =>
          /\ exc' = PyError("RuntimeError", "closing")
          /\ pc' \in {"idle", "r_except"}
          /\ cmdlog' = <<>>
          /\ UNCHANGED <<rundir, lockfile, pidfile, cfg, containers, conVars,
                         procVars>>]_vars

\* The call has been rejected with a stale lockfile and pidfile left as found.
C12_Witness ==
    /\ closing
    /\ pc = "idle"
    /\ exc = PyError("RuntimeError", "closing")
    /\ ~rundir["c1"]
    /\ lockfile["c1"] = IntToStr(StalePid)
    /\ pidfile["c1"] = IntToStr(StalePid)
    /\ cfg["c1"] = [json |-> Unpacked, orig |-> NoSpec]
    /\ cmdlog = <<>>

\* C13 -- start_container on a handle without pid, or whose status is not
\* "created", raises RuntimeError without launching `start` and leaves
\* status, pid and returncode (and the process) as they were; when
\* start_container returns normally the status is "running".
C13_StartGuard ==
    [][/\ (StartRun /\ (cpid[cur] = None \/ status[cur] # "created")) =>
            /\ exc' = PyError("RuntimeError", "cannot_start")
            /\ pc' \in {"idle", "r_except"}
            /\ cmdlog' = cmdlog
            /\ UNCHANGED <<status, cpid, crc, procVars>>
       /\ (StartState /\ exc' = exc) =>
            (pc' \in {"idle", "r_loop"} /\ status'[cur] = "running")
       /\ (StartState /\ exc' # exc) => pc' \in {"idle", "r_except"}]_vars

\* start_container has been refused on a container that is running.
C13_Witness ==
    /\ pc = "idle"
    /\ exc = PyError("RuntimeError", "cannot_start")
    /\ cur = "c1"
    /\ status["c1"] = "running"
    /\ cpid["c1"] = PidOf("c1")
    /\ proc["c1"] = "running"
    /\ cmdlog = <<>>

\* C14 -- remove_container launches `delete` only when the runtime's `state`
\* has reported "stopped"; when `state` reports another status it raises
\* RuncError and pidfile, lockfile, registry and the handle's status are as
\* they were; when it returns the container, pidfile and lockfile are
\* absent, the container is not in the registry and its status is "removed".
C14_RemoveGuard ==
    [][/\ (cmdlog' = Append(cmdlog, "delete")) =>
            (RemoveDelete /\ rtExists[cur] /\ RuntimeStatus(cur) = "stopped")
       /\ (RemoveState /\ pc' = "rm_delete") =>
            (rtExists[cur] /\ RuntimeStatus(cur) = "stopped")
       /\ (RemoveState /\ rtExists[cur] /\ RuntimeStatus(cur) # "stopped") =>
            /\ exc' = RuncError("not_stopped", DefaultErrorCode)
            /\ pc' \in {"idle", "r_except"}
            /\ cmdlog' = Append(cmdlog, "state")
            /\ UNCHANGED <<pidfile, lockfile, containers, status, rtExists>>
       /\ (RemoveDelete /\ exc' = exc) =>
            /\ pc' \in {"idle", "t_close"}
            /\ pidfile'[cur] = NoFile
            /\ lockfile'[cur] = NoFile
            /\ \A i \in 1..Len(containers') : containers'[i] # cur
            /\ status'[cur] = "removed"]_vars

\* remove_container has returned the container.
C14_Witness ==
    /\ pc = "idle"
    /\ exc = NoExc
    /\ cmdlog = <<"state", "delete">>
    /\ status["c1"] = "removed"
    /\ pidfile["c1"] = NoFile
    /\ lockfile["c1"] = NoFile
    /\ containers = <<>>
    /\ ~rtExists["c1"]

\* C15 -- Container.close() postcondition: when the close() call that found
\* _closing None is over, by returning or by passing on the exception of
\* wait(), the fd list and the thread list are empty, every fd that was in
\* the list is closed (also after a close that raised OSError) and every
\* thread that was in the list has finished; each was popped by a join or a
\* close of its own.
C15_ClosePostcondition ==
    [][/\ HExit =>
            /\ close_fds' = <<>>
            /\ io_threads' = <<>>
            /\ fdopen' = {}
            /\ alive' = {}
       /\ HJoin => (Head(io_threads) \notin alive' /\ Head(io_threads) \notin Elems(io_threads'))
       /\ HFd => (Head(close_fds) \notin fdopen' /\ Head(close_fds) \notin Elems(close_fds'))
       /\ ~(HJoin \/ HFd \/ \E t \in 1..MaxThreads : ThreadFinish(t)) =>
            UNCHANGED <<close_fds, io_threads, fdopen, alive>>]_vars

\* wait() raised, the first fd's close raised OSError, and close() is over.
C15_Witness ==
    /\ pc = "idle"
    /\ kret = <<<<"raise", None>>>>
    /\ oplog = <<<<1, "wait", 0>>, <<1, "stop", 0>>, <<1, "join", 1>>, <<1, "join", 2>>,
                 <<1, "close_err", 1>>, <<1, "close", 2>>>>
    /\ close_fds = <<>>
    /\ io_threads = <<>>
    /\ fdopen = {}
    /\ alive = {}

\* C16 -- Container.close() is idempotent: the wait, the stop-flag set, each
\* join and each fd close are done by the first call only and once each; a
\* later call does nothing and returns the handle's returncode, the same
\* for every later call and the same as the first call returned.
C16_CloseIdempotent ==
    /\ [](/\ \A i \in 1..Len(oplog) : oplog[i][1] = 1
          /\ \A i, j \in 1..Len(oplog) : i # j => oplog[i] # oplog[j]
          /\ \A i \in 2..Len(kret) :
                /\ kret[i][1] = "ret"
                /\ kret[i] = kret[2]
                /\ kret[1][1] = "ret" => kret[i] = kret[1])
    /\ [][(HClose /\ ncalls >= 1) =>
            /\ pc' = "idle"
            /\ kret' = Append(kret, <<"ret", crc[Handle]>>)
            /\ UNCHANGED <<oplog, close_fds, io_threads, stop_event, fdopen,
                           alive, conVars, procVars>>]_vars

\* Three calls: the first waited, stopped, joined and closed; all returned 3.
C16_Witness ==
    /\ pc = "idle"
    /\ ncalls = 3
    /\ kret = <<<<"ret", 3>>, <<"ret", 3>>, <<"ret", 3>>>>
    /\ oplog = <<<<1, "wait", 0>>, <<1, "stop", 0>>, <<1, "join", 1>>, <<1, "close", 1>>>>
    /\ cclosing[Handle] = "False"

\* C17 -- Container.wait(): with a returncode already set, or without a
\* pid, it calls no waitpid (a zombie stays a zombie) and the returncode,
\* which it returns, is as before; when waitpid raises ChildProcessError
\* (the process is not, or no longer, a child to wait for) the returncode
\* becomes the sentinel 255; a non-blocking wait on a child that is alive
\* leaves the returncode None, which it returns.
C17_WaitContract ==
    [][\A c \in ApiContainers : ApiWaitNoHang(c) =>
          /\ (crc[c] # None \/ cpid[c] = None) =>
                (crc'[c] = crc[c] /\ proc' = proc)
          /\ (crc[c] = None /\ cpid[c] # None
                /\ ~(isChild[c] /\ proc[c] \in {"init", "running", "zombie"})) =>
                (crc'[c] = ReapedElsewhere /\ proc' = proc)
          /\ (crc[c] = None /\ cpid[c] # None
                /\ isChild[c] /\ proc[c] \in {"init", "running"}) =>
                (crc'[c] = None /\ proc' = proc)]_vars

\* wait() on a handle whose process someone else has reaped.
C17_Witness ==
    /\ caller = "api"
    /\ pc = "idle"
    /\ cpid["c1"] = PidOf("c1")
    /\ crc["c1"] = ReapedElsewhere
    /\ proc["c1"] = "gone"
    /\ ~isChild["c1"]

\* C18 -- I/O pump byte ordering: at every point the bytes the write
\* endpoint has accepted are a prefix of the bytes read from the read
\* endpoint, whatever the partial writes, EAGAIN and EINTR; and when the
\* pump has ended normally (end of input on the read end, no exception, no
\* stop) the two sequences are equal.
C18_PumpOrdering ==
    /\ IsPrefix(wrseq, rdseq)
    /\ IsPrefix(rdseq, Input)
    /\ (ppc \notin {"p_finally", "p_done"}) => (wrseq \o buf = rdseq)
    /\ (ppc = "p_done" /\ pump_exc = "none" /\ rend = "eof") => (wrseq = rdseq)

\* A pump that read three bytes in two reads, wrote them in three writes
\* and ended at end of input.
C18_Witness ==
    /\ ppc = "p_done"
    /\ pump_exc = "none"
    /\ rend = "eof"
    /\ stop_event # "set"
    /\ rdseq = Input
    /\ wrseq = Input

\* C19 -- Pump cancellation: once the stop event is set the pump leaves
\* its loop and finishes, whatever its state at that moment.
C19_PumpCancellation ==
    (caller = "pump" /\ stop_event = "set") ~> (ppc \in {"p_done", "p_raised"})

\* C20 -- Spec overlay idempotence: starting from the unpacker's
\* config.json, however many times update_spec_file is applied, config.json
\* is the overlay of the unpacker's spec and config.orig.json is that spec:
\* a further application changes neither, and never overlays an overlay.
C20_OverlayIdempotent ==
    /\ [](\A c \in Containers :
            /\ cfg[c] \in {[json |-> Unpacked, orig |-> NoSpec],
                           [json |-> Overlay(Unpacked), orig |-> Unpacked]}
            /\ update_spec_file(update_spec_file(cfg[c])) = update_spec_file(cfg[c]))
    /\ [][CreateLockWrite =>
            /\ cfg'[cur] = [json |-> Overlay(Unpacked), orig |-> Unpacked]
            /\ cfg[cur].orig # NoSpec => cfg' = cfg]_vars

\* update_spec_file has overlaid config.json in an earlier create_container
\* that failed, and create_container is about to apply it again.
C20_Witness ==
    /\ pc = "c_write"
    /\ cpid[cur] = None
    /\ cfg[cur] = [json |-> Overlay(Unpacked), orig |-> Unpacked]

\* C21 -- Pristine copy: in every state reached by unpack_image calls
\* (refresh_config on or off, succeeding or failing) and update_spec_file
\* calls, config.orig.json, if it exists, holds what the image unpacker last
\* wrote to config.json.  Stated over SpecBundle; it does not hold: an
\* unpack_image that fails after the config command has rewritten config.json
\* leaves the older pristine copy in place.
C21_PristineCopy ==
    caller = "bundle" =>
        (cfg[Bundle].orig # NoSpec => cfg[Bundle].orig = unpacked)

\* The other half of C21, which holds: update_spec_file never modifies an
\* existing config.orig.json.
C21_OrigKeptByUpdate ==
    [][\A fails \in BOOLEAN :
         (UpdateSpecFile(fails) /\ cfg[Bundle].orig # NoSpec) =>
             cfg'[Bundle].orig = cfg[Bundle].orig]_vars

\* unpack_image has failed after the unpacker rewrote config.json.
C21_LateFailure ==
    /\ caller = "bundle"
    /\ args.op = "unpack_image" /\ res = "raised"
    /\ cfg[Bundle].json = unpacked
    /\ cfg[Bundle].orig \notin {NoSpec, unpacked}

\* The items of a sequence are pairwise distinct.
NoDup(q) == \A i, j \in 1..Len(q) : q[i] = q[j] => i = j

CapsDone == caller = "caps" /\ pc = "f_done"

\* The originals of a kind that are not dropped, in their original order.
Retained(kind) == SelectSeq(args.caps[kind], LAMBDA c : c \notin Elems(args.drop))

\* C22 -- Capability update set law: for every capability kind, original list
\* and add/drop lists, the elements of the result of _update_capabilities are
\* (orig \ drop) \cup add; the retained originals come first, in their
\* original relative order, and the added items (those of `add` not already
\* retained) follow in input order.
C22_CapabilitySetLaw ==
    CapsDone =>
        \A kind \in Kinds :
            LET n == Len(Retained(kind)) IN
            /\ DOMAIN res = Kinds
            /\ Elems(res[kind]) =
                   (Elems(args.caps[kind]) \ Elems(args.drop)) \cup Elems(args.add)
            /\ Len(res[kind]) >= n
            /\ SubSeq(res[kind], 1, n) = Retained(kind)
            /\ SubSeq(res[kind], n + 1, Len(res[kind])) =
                   SelectSeq(args.add, LAMBDA c : c \notin Elems(Retained(kind)))

\* A call that retains an original, drops one, adds a new capability and
\* names in `add` one that is dropped and one that is already there.
C22_Witness ==
    /\ CapsDone
    /\ \E kind \in Kinds :
          /\ Retained(kind) # <<>>
          /\ Len(Retained(kind)) < Len(args.caps[kind])
          /\ Len(res[kind]) > Len(Retained(kind))
          /\ Elems(args.add) \cap Elems(args.drop) # {}
          /\ Elems(args.add) \cap Elems(Retained(kind)) # {}

\* C23 -- No duplicates: for every original list of distinct items and every
\* add/drop lists, also an `add` list that names a capability more than once,
\* no capability appears twice in a resulting per-kind list.  Stated over
\* SpecCaps; it does not hold: a capability named twice in `add` and not in
\* the original list is appended twice.
C23_NoDuplicates ==
    CapsDone =>
        \A kind \in Kinds : NoDup(args.caps[kind]) => NoDup(res[kind])

EnvDone == caller = "env" /\ pc = "f_done"

\* The entries of a list that name a key, and the last of them.
Naming(list, k) == {i \in 1..Len(list) : partition(list[i]).name = k}
LastNaming(list, k) ==
    partition(list[CHOOSE i \in Naming(list, k) : \A j \in Naming(list, k) : j <= i])

\* The value a KEY=VALUE list gives a key, NoValue when it has none.
ValueIn(list, k) ==
    IF Naming(list, k) = {} THEN NoValue ELSE LastNaming(list, k).value

\* The overlay law, level by level: a key named in env.host gets the host
\* value if the host sets it, else the default of its (last) entry, and is
\* unset if that entry is a bare name; a key not named there but named in
\* env.vars gets the value of its (last) entry and is unset if that is a
\* bare name; any other key keeps its original value.
ExpectedValue(k) ==
    IF Naming(args.host, k) # {}
    THEN IF args.environ[k] # NoValue THEN args.environ[k]
         ELSE IF LastNaming(args.host, k).sep THEN LastNaming(args.host, k).value
         ELSE NoValue
    ELSE IF Naming(args.vars, k) # {}
    THEN IF LastNaming(args.vars, k).sep THEN LastNaming(args.vars, k).value
         ELSE NoValue
    ELSE ValueIn(args.env, k)

IdMapsDone == caller = "idmaps" /\ pc = "f_done"
Rewritten == IdMapsDone /\ args.host_id # None
TargetEntries == {i \in 1..Len(args.given) : args.given[i].containerID = args.container_id}

\* C25 -- ID-map rewrite frame: _update_id_maps returns a list of the length
\* and order of its input; an entry whose containerID differs from the target
\* is unchanged, an entry whose containerID equals the target differs from
\* the input in hostID only, which is the owner id; the input entries are not
\* mutated.
C25_IdMapFrame ==
    Rewritten =>
        /\ Len(res) = Len(args.given)
        /\ \A i \in 1..Len(args.given) :
              IF i \in TargetEntries
              THEN res[i] = [args.given[i] EXCEPT !.hostID = args.host_id]
              ELSE res[i] = args.given[i]
        /\ args.id_maps = args.given

\* A rewrite of a list with a target entry whose hostID changes, next to an
\* entry for another container id.
C25_Witness ==
    /\ Rewritten
    /\ \E i, j \in 1..Len(args.given) :
          /\ i \in TargetEntries /\ j \notin TargetEntries
          /\ res[i].hostID # args.given[i].hostID

\* C26 -- Missing id-map target: when an owner id is supplied and no entry of
\* the mappings has containerID equal to the configured user id,
\* update_spec_file fails with a configuration error and does not write
\* config.json.  Stated over SpecIdMaps; it does not hold: the list is
\* returned unchanged, nothing is raised and config.json is written.
C26_MissingTargetFails ==
    (Rewritten /\ TargetEntries = {}) =>
        (exc # NoExc /\ cfg[Bundle].json = Unpacked)

\* C29 -- No container resources outlive teardown: after run_until_complete
\* returns, every fd adopted for the container is closed and every pump
\* thread is joined, also when create_container fails after the runtime's
\* `create` succeeded and the container was never stored in the registry.
\* Stated over Spec; it does not hold: _close closes registered containers
\* only.
C29_NoResourceOutlivesTeardown ==
    (caller = "run" /\ pc = "r_returned") =>
        \A c \in Containers : cfds[c] # "open" /\ pumps[c] # "alive"

\* C28 -- Subreaper adoption: an orphaned grandchild reparented to the
\* supervisor that exits, before or after the container init's exit, is
\* reaped by the supervisor, so that no zombie child remains when
\* run_until_complete returns.  Stated over SpecReaper; it does not hold: a
\* grandchild that exits after the signal loop has ended is never reaped.
C28_NoZombieAtReturn ==
    (caller = "run" /\ pc = "r_returned") => orphan # "zombie"

\* The rest of C28, which holds: reaping the grandchild changes no
\* container's returncode, and the loop ends at its first check that finds
\* every registered container with a returncode.
C28_ReapFrame ==
    [][/\ (orphan = "zombie" /\ orphan' = "reaped" /\ Zombies = {}) => crc' = crc
       /\ (LoopCheck /\ Alive = <<>>) => pc' = "r_getrc"]_vars

\* The container ran to its end and was reaped, no exception was raised, and
\* the grandchild exited after the signal loop's last _reap.
C28_ZombieAfterNormalRun ==
    /\ caller = "run" /\ pc = "r_returned" /\ exc = NoExc
    /\ crc[cur] # None
    /\ orphan = "zombie"

\* run_until_complete has been left by its return or by the exception that
\* was pending behind a finally clause that ran to its end.
LeftAfterFinally == caller = "run" /\ pc \in Finished /\ escaped \notin {"entry", "teardown"}

\* C27 -- Host TTY restoration: on every path on which run_until_complete put
\* the host terminal into raw mode (saved settings recorded), the saved
\* settings are re-applied exactly once before it returns, after which the
\* saved-settings slot is empty, also when create, start or remove raise.
\* Until then the slot holds the settings the terminal had.
C27_TtyRestored ==
    caller = "run" =>
        /\ IsPrefix(tty_log, <<"setraw", "tcsetattr">>)
        /\ (old_tty_settings # "None") = (host_tty = "raw")
        /\ old_tty_settings \in {"None", "cooked"}
        /\ (LeftAfterFinally /\ tty_log # <<>>) =>
              /\ tty_log = <<"setraw", "tcsetattr">>
              /\ old_tty_settings = "None"
              /\ host_tty = "cooked"

\* The terminal was raw, remove_container raised, and the call returned
\* with the settings re-applied.
C27_Witness ==
    /\ caller = "run" /\ pc = "r_returned"
    /\ tty_raw = "True"
    /\ exc.kind = "RuncError" /\ crc[cur] # None
    /\ tty_log = <<"setraw", "tcsetattr">>

TeardownOrder == <<"close", "subreaper", "signals", "sockets", "tty", "stdio">>

Unreaped == \E i \in 1..Len(containers) : crc[containers[i]] = None

LoopExitStep ==
    /\ (pc' = "r_getrc" /\ pc # "r_getrc") =>
          /\ pc = "r_check"
          /\ batch = <<>>
          /\ ~Unreaped
          /\ ~Unreaped'
          /\ ~running'
    /\ (pc = "r_check" /\ pc' = "r_recv") => Unreaped
    /\ (pc = "r_check" /\ ~Unreaped /\ pc' # pc) =>
          pc' \in {"r_getrc", "r_except"}
    /\ (pc = "r_check" /\ ~Unreaped /\ pc' = "r_except") => SigAbort
    /\ (pc = "r_handle" /\ pc' = "r_check") => batch' = <<>>

C31_LoopExit ==
    /\ [][LoopExitStep]_vars
    /\ [](pc = "r_recv" => Unreaped)

\* The loop has ended normally after the batch that reaped the container,
\* with a further signal waiting in the self-pipe.
C31_Witness ==
    /\ caller = "run"
    /\ pc = "r_getrc"
    /\ exc = NoExc
    /\ containers = <<cur>>
    /\ crc[cur] # None
    /\ sigq # <<>>

\* C32 -- a SIGCHLD byte handled by the signal loop reaps every child that
\* is a zombie at that moment, the container's process and an adopted
\* grandchild alike, however many exits stand behind the byte: after the
\* step no child is a zombie, every registered container reaped by it that
\* had no returncode has the one computed from its wait status, nothing that
\* was no zombie is touched, and only then is the byte taken off the batch,
\* so the next byte of the batch is handled after the drain.
ZombieChild(c) == proc[c] = "zombie" /\ isChild[c]

DrainStep ==
    (pc = "r_handle" /\ batch # <<>> /\ Head(batch) = SIGCHLD /\ pc' # "r_except") =>
        /\ batch' = Tail(batch)
        /\ \A c \in Containers :
              /\ ZombieChild(c) => proc'[c] = "gone"
              /\ ~ZombieChild(c) => (proc'[c] = proc[c] /\ crc'[c] = crc[c])
              /\ (ZombieChild(c) /\ InRegistry(c)) =>
                    /\ crc'[c] # None
                    /\ crc[c] = None => crc'[c] = compute_returncode(wstatus[c])
              /\ ~ZombieChild(c)'
        /\ orphan = "zombie" => orphan' = "reaped"
        /\ orphan' # "zombie"

C32_SigchldDrains == [][LoopHandle => DrainStep]_vars

\* One SIGCHLD byte is about to be handled with two zombies waiting: the
\* registered container's process and an adopted grandchild.
C32_Witness ==
    /\ pc = "r_handle"
    /\ batch # <<>>
    /\ Head(batch) = SIGCHLD
    /\ InRegistry(cur)
    /\ ZombieChild(cur)
    /\ crc[cur] = None
    /\ orphan = "zombie"
    /\ Len(batch) > 1

\* C33 -- the returncode of a registered container is assigned only while
\* the executor's condition is held, whichever path assigns it: the reaper,
\* Container.wait(), Container.close() called by the executor's teardown.
C33_ReturncodeUnderCondition ==
    \A c \in Containers : InRegistry(c) => rc_cond[c] # "free"

\* The reaper's assignments are made with the condition held.
C33_ReaperHoldsCondition ==
    [][\A c \in Containers :
          (crc'[c] # crc[c] /\ (LoopHandle \/ ApiReap)) => rc_cond'[c] = "held"]_vars

\* The teardown has closed a registered container that the loop had not
\* reaped: its returncode was assigned by Container.close.
C33_AssignedByTeardown ==
    /\ caller = "run"
    /\ pc = "r_returned"
    /\ InRegistry(cur)
    /\ crc[cur] # None
    /\ rc_cond[cur] = "free"

\* C34 -- pump cleanup on every exit path: however iopump ends (normally,
\* by the stop flag, by a broken pipe, by any other exception) the read and
\* the write endpoint are closed and a future that was supplied and not
\* cancelled is completed, with a result when no exception ended the pump
\* and with the exception otherwise; with a future cancelled before the
\* start no byte is transferred.
PumpEnded == caller = "pump" /\ ppc \in {"p_done", "p_raised"}

C34_PumpCleanup ==
    PumpEnded =>
        /\ read_from = "None"
        /\ write_to = "closed"
        /\ buf = <<>>
        /\ future \in {"None", "cancelled", "result", "exception"}
        /\ future = "result" => pump_exc = "none"
        /\ future = "exception" => pump_exc # "none"
        /\ future = "cancelled" => (rdseq = <<>> /\ wrseq = <<>>)

\* What holds of every pump that got as far as its try statement: the
\* cleanup above, and a future that changes only from pending to running
\* at the start and from running to its outcome in the finally clause.
C34_CleanupAfterTry ==
    /\ [](ppc = "p_done" => C34_PumpCleanup)
    /\ [][future' # future =>
            \/ PumpBegin /\ future = "pending" /\ future' = "running"
            \/ PumpFinally /\ future = "running"
                 /\ future' = IF pump_exc = "none" THEN "result" ELSE "exception"]_vars
    /\ [](future = "cancelled" => (rdseq = <<>> /\ wrseq = <<>>))

\* A pump ended by BrokenPipeError after it had moved a byte: both ends
\* closed, the future holds the exception.
C34_BrokenPipeCleanedUp ==
    /\ ppc = "p_done"
    /\ pump_exc = "BrokenPipeError"
    /\ future = "exception"
    /\ wrseq # <<>>
    /\ read_from = "None"
    /\ write_to = "closed"

\* iopump was left by the exception of its first lines: the read endpoint
\* is open and the future still pending.
C34_LeftBeforeTry ==
    /\ ppc = "p_raised"
    /\ read_from = "open"
    /\ future = "pending"

\* C35 -- the tty policy of _setup_tty: once _setup_tty has run, the
\* container's tty request is set only if the executor chose raw mode, and
\* raw mode is chosen only when the container asked for a tty, a host
\* stream is a terminal and the two streams looked at are the same
\* terminal; in every other case the request is cleared (also without any
\* host terminal); nothing changes the request afterwards, and
\* create_container takes the console-socket path only in the raw-mode case.
SetupTtyStep ==
    /\ (RunSetup /\ (pc' = "c_check" \/ tty_raw' # tty_raw)) =>
          /\ use_tty' = (use_tty /\ host_tty # "none" /\ out_tty)
          /\ use_tty' => tty_raw' = "True"
          /\ (tty_raw' = "True") = (use_tty /\ host_tty # "none" /\ out_tty)
    /\ ~RunSetup => use_tty' = use_tty

C35_TtyPolicy ==
    /\ [][SetupTtyStep]_vars
    /\ [](tty_raw = "True" => (host_tty # "none" /\ out_tty))
    /\ []((caller = "run" /\ pc \in TryLabels) => (use_tty => tty_raw = "True"))
    /\ []((caller = "run" /\ cpath = "tty") => (use_tty /\ tty_raw = "True"))

\* The container asked for a tty on a host whose stdin and stdout are not
\* the same terminal: the request was cleared and the runtime's create went
\* through the socket pairs.
C35_Witness ==
    /\ caller = "run"
    /\ pc = "c_state"
    /\ host_tty # "none"
    /\ ~out_tty
    /\ tty_raw = "False"
    /\ ~use_tty
    /\ cpath = "notty"

\* C36 -- configuration errors come before any effect on the live spec or
\* the runtime: update_spec_file raises exactly when a mount it has to
\* place is of an unknown type, is a bind mount with a relative or an
\* absent source, or is a runtime mount while no runtime dir is given; and
\* when it raises, config.json is as it was, no volume directory has been
\* made and create_container does not launch the runtime's create.
BadMount(kind) ==
    \/ kind \in {"unknown", "bind_relative"}
    \/ kind = "runtime" /\ ~args.rundir

ConfigurationError ==
    \/ \E i \in 1..Len(args.mounts) : BadMount(args.mounts[i]) \/ args.mounts[i] = "bind_absent"
    \/ \E i \in 1..Len(args.rmounts) : BadMount(args.rmounts[i])

C36_ConfigErrorsFirst ==
    (caller = "mounts" /\ pc # "f_call") =>
        /\ (res = "raised") = ConfigurationError
        /\ res = "raised" =>
              /\ cfg[Bundle].json = args.json
              /\ mdirs = {}
              /\ cmdlog = <<>>
              /\ pc = "f_done"
        /\ res = "returned" =>
              /\ cfg[Bundle].json = Overlay(args.json)
              /\ mdirs = VolumeDirs(args.mounts, Len(args.mounts))

\* update_spec_file has raised on a bind source that is absent, listed
\* after a shared volume whose directory would have had to be made.
C36_Witness ==
    /\ caller = "mounts"
    /\ pc = "f_done"
    /\ res = "raised"
    /\ args.mounts = <<"shared", "bind_absent">>
    /\ exc.kind = "ValueError"

\* C37 -- the lock is held for the container's lifetime: in every state in
\* which a supervisor has launched the runtime's create for the container
\* and its remove_container has not completed, the lockfile exists and
\* holds that supervisor's pid.  Stated over two supervisors; it does not
\* hold: a second supervisor that read the lockfile before the first wrote
\* it writes its own pid over the first one's.
CreateInvoked(s) == lpc[s] \in {"l_held", "l_failed"}

C37_LockHeldForLifetime ==
    \A s \in Sups : CreateInvoked(s) => lockfile[Bundle] = IntToStr(s)

\* With one supervisor and nobody else writing the lockfile the claim
\* holds: from the launch of create until remove_container has stored
\* 'removed' the lockfile holds the supervisor's pid.
C37_HeldBySoleSupervisor ==
    (caller \in {"api", "run"} /\ cpath # "none" /\ status[cur] # "removed") =>
        lockfile[cur] = IntToStr(SelfPid)

\* The first supervisor holds the container while the lockfile names the
\* second.
C37_Overwritten ==
    /\ lpc[SelfPid] = "l_held"
    /\ lockfile[Bundle] = IntToStr(OtherPid)

\* ---------------------------------------------------------------- C38
\* What a refused call leaves alone: the lockfile, the pidfile, the spec
\* files and the run directory, the runtime's command log, the registry and
\* the processes.
RefusedUntouched ==
    UNCHANGED <<fileVars, lockVars, logVars, conVars, procVars, execVars,
                loopVars, ioVars, moreVars>>

SingleUseStep ==
    /\ closing => closing'
    /\ RunAgain => closing
    /\ (pc = "r_entry" /\ pc' # pc /\ closing) =>
           /\ pc' = "r_propagated"
           /\ escaped' = "entry"
           /\ RefusedUntouched
    /\ CreateAfterRun =>
           /\ pc' = "r_rejected"
           /\ exc' = PyError("RuntimeError", "closing")
           /\ RefusedUntouched

\* C38: the executor is single-use.  _closing, once set by teardown, is
\* never cleared; it is set whenever run_until_complete has returned; and a
\* later run_until_complete or create_container on that executor raises
\* RuntimeError with the lockfile, the spec files, the runtime's command
\* log, the registry and the processes left as they were.
C38_SingleUse ==
    /\ [][SingleUseStep]_vars
    /\ [](caller = "run" /\ pc \in {"r_returned", "r_rejected"} => closing)

\* A create_container refused after a run that created, ran and removed its
\* container.
C38_Witness ==
    /\ caller = "run"
    /\ pc = "r_rejected"
    /\ exc = PyError("RuntimeError", "closing")
    /\ cmdlog # <<>>
    /\ lockfile[cur] = NoFile

\* ---------------------------------------------------------------- C39
\* The process of c is a child the supervisor has not waited for: its pid
\* is still its own.
UnreapedChild(c) == isChild[c] /\ proc[c] \in {"init", "running", "zombie"}

KilledPids(log) == {log[i][1] : i \in 1..Len(log)}

ForwardStep ==
    /\ pc = "r_handle"
    /\ batch # <<>>
    /\ Head(batch) \in FORWARD_SIGNALS
    /\ LoopHandle

KillStep ==
    /\ killlog' # killlog =>
          \/ ForwardStep
          \/ \E sig \in FORWARD_SIGNALS : ApiSendSignal(sig)
    /\ (ForwardStep \/ \E sig \in FORWARD_SIGNALS : ApiSendSignal(sig)) =>
          /\ \A p \in KilledPids(killlog') :
                \E c \in Containers :
                    InRegistry(c) /\ cpid[c] = p /\ crc[c] = None
          /\ \A c \in Containers :
                (InRegistry(c) /\ crc[c] # None) => cpid[c] \notin KilledPids(killlog')
    /\ ForwardStep =>
          /\ \A p \in KilledPids(killlog') :
                \E c \in Containers : cpid[c] = p /\ UnreapedChild(c)
          /\ ~SendSignalRaises

\* C39: kill(pid, sig) is called only from _send_signal, and only for the
\* pid of a registered container whose returncode is None; in the signal
\* loop such a container's process is a child that has not been waited
\* for, so the pid exists and is the container's; a forwarded signal
\* handled after the SIGCHLD that reaped the container, in the same batch,
\* is sent to nobody.
C39_NoSignalToReaped ==
    /\ [][KillStep]_vars
    /\ [](caller = "run" =>
            \A c \in Containers :
                (InRegistry(c) /\ crc[c] = None) => UnreapedChild(c))

\* SIGTERM heads the rest of a batch whose SIGCHLD has just reaped the
\* container, after an earlier SIGTERM was delivered to it.
C39_Witness ==
    /\ caller = "run"
    /\ pc = "r_handle"
    /\ Head(batch) = SIGTERM
    /\ InRegistry(cur)
    /\ crc[cur] # None
    /\ proc[cur] = "gone"
    /\ Targets = <<>>

\* ---------------------------------------------------------------- C40
BufferStep ==
    /\ rdseq' # rdseq =>
          /\ Len(buf) < BufSize
          /\ Len(buf') - Len(buf) = Len(rdseq') - Len(rdseq)
          /\ Len(buf') - Len(buf) <= BufSize
    /\ wrseq' # wrseq =>
          /\ Len(buf) - Len(buf') = Len(wrseq') - Len(wrseq)
          /\ Len(buf) - Len(buf') <= Min(Len(buf), BufSize)
          /\ buf' = SubSeq(buf, Len(wrseq') - Len(wrseq) + 1, Len(buf))
    /\ (rdseq' = rdseq /\ wrseq' = wrseq) => (buf' = buf \/ buf' = <<>>)

\* C40: the pump's buffer never holds more than 2*bufsize - 1 bytes.  A
\* read happens only with fewer than bufsize bytes buffered and appends
\* what it read, at most bufsize bytes; a write removes from the front
\* exactly the bytes the write end took, at most min(len(buf), bufsize);
\* no other step changes the buffer, but for the finally clause, which
\* empties it.
C40_BufferBound ==
    /\ [](caller = "pump" => Len(buf) <= 2 * BufSize - 1)
    /\ [][BufferStep]_vars

\* The bound is met, with input still to come: bufsize - 1 bytes were
\* buffered when bufsize more were read.
C40_Witness ==
    /\ caller = "pump"
    /\ ppc = "p_write"
    /\ Len(buf) = 2 * BufSize - 1
    /\ source # <<>>

====
